---------------------------- MODULE Spec2Model ----------------------------
(***************************************************************************)
(* Model of x-algorithm-score: the Controversy Risk Scanner                *)
(* (src/lib/scandal-detector.ts) and the scoring engine's entry point      *)
(* scoreTweet (src/lib/scoring-engine.ts).                                 *)
(*                                                                         *)
(* A text is a sequence of words (whitespace-separated, case-folded: every *)
(* rule but the shouting rule is case-insensitive).  A regular expression  *)
(* is the set of word phrases it accepts, one phrase per alternative; an   *)
(* optional blank gap gives the spaced and the glued spelling.  Three word *)
(* classes stand for unbounded sub-patterns: "@user" for a mention, "!!!"  *)
(* and "???" for runs of three or more marks, "CAPS_RUN" for thirty or     *)
(* more capitals or blanks.                                                *)
(***************************************************************************)
EXTENDS Integers, Sequences, FiniteSets, TLC

VARIABLES
    text,        \* argument of the latest scanForControversy call
    result,      \* the ControversyResult it returned (NoResult before a call)
    lastIndex,   \* RegExp.lastIndex of every rule's pattern (module state)
    firstText,   \* history: argument of the first call of the behaviour
    firstResult, \* history: result of the first call of the behaviour
    otherCalls,  \* history: a call with another text followed the first call
    tweet,       \* DraftTweet handed to scoreTweet
    context,     \* UserContext handed to scoreTweet (NoContext: omitted)
    timestamp,   \* timestamp supplied by the caller (NoTimestamp: none)
    now,         \* the clock: hour and kind of day of the current time
    score,       \* TweetScore returned by the latest scoreTweet call
    riskParts,   \* the penalties the latest call added up for its risk sub-score
    scoredAt,    \* history: the clock at the latest scoreTweet call
    firstScore,  \* history: TweetScore returned by the first scoreTweet call
    firstAt      \* history: the clock at the first scoreTweet call

scanVars == <<text, result, lastIndex, firstText, firstResult, otherCalls>>

scoreVars == <<tweet, context, timestamp, now, score, riskParts, scoredAt,
               firstScore, firstAt>>

\* The popup's AI analysis behind the consent guard
VARIABLES
    consentStore,        \* chrome.storage.local: the value under 'aiConsentAccepted'
    storageQueue,        \* storage operations issued and not yet carried out
    calls,               \* the withConsent calls made so far, each with its position
    nextCall,            \* the number of the next withConsent call
    consentResolverRef,  \* the call whose showModal promise the modal resolves (0: null)
    showConsentModal,    \* Popup state: the consent modal is on screen
    isAnalyzing,         \* Popup state: an AI analysis is running
    aiError,             \* Popup state: the error shown under the Analyze button
    lastWrite,           \* history: who wrote consentStore last
    revokePending        \* history: consent was revoked and no request or acceptance followed yet

consentVars == <<consentStore, storageQueue, calls, nextCall, consentResolverRef,
                 showConsentModal, isAnalyzing, aiError, lastWrite, revokePending>>

\* The content script's Post listener, the background worker and the storage
VARIABLES
    storedSettings,   \* chrome.storage.local: the value under 'settings'
    scoreHistory,     \* chrome.storage.local: the value under 'scoreHistory' (<<>>: none)
    currentSettings,  \* content script: currentSettings
    currentScore,     \* content script: currentScore (NoScore: null)
    messages,         \* LOG_SCORE messages sent and not yet received by the worker
    bgQueue,          \* storage operations issued by the worker and not yet carried out
    changes,          \* storage.onChanged events on their way to the content script
    nextEntry,        \* the timestamp of the next entry
    logged,           \* history: the entries handed to logScoreHistory, in order
    overlapped        \* history: a message was handled while an earlier one was still being stored

historyVars == <<storedSettings, scoreHistory, currentSettings, currentScore, messages,
                 bgQueue, changes, nextEntry, logged, overlapped>>

\* The content script's debounced input handler
VARIABLES
    timeMs,          \* the time in ms
    debounceTimer,   \* content script: debounceTimer (0: null)
    timers,          \* the timers set and neither fired nor cleared, each with the text it captured
    nextTimerId,     \* the id the next setTimeout returns
    inputs,          \* history: the number of input events handled
    lastInput,       \* history: the time and text of the latest input event
    callbacksSince,  \* history: timer callbacks run since the latest input event
    analysesSince,   \* history: analyses run by those callbacks
    lastRun,         \* history: the latest timer callback
    ranInsideBurst   \* history: a callback ran between two events less than the delay apart

debounceVars == <<timeMs, debounceTimer, timers, nextTimerId, inputs, lastInput,
                  callbacksSince, analysesSince, lastRun, ranInsideBurst>>

\* the onboarding of the popup: chrome.storage.local, the install handler of
\* the background script, the popup and its checklist
VARIABLES
    onboardingStore,     \* chrome.storage.local: the value under 'onboardingCompleted'
    updatePc,            \* where the onInstalled handler is
    updateRead,          \* the settings and the score history it read
    popupOpen,           \* whether the popup is open
    loadPending,         \* the popup's get of 'onboardingCompleted' has not called back
    onboardingCompleted, \* Popup state
    composerDetected,    \* Popup state
    steps,               \* OnboardingChecklist state
    completePending,     \* the storage writes of handleOnboardingComplete on their way
    resetPc,             \* where handleResetOnboarding is
    onCompleteLog,       \* history: the steps at each call of onComplete of the mounted checklist
    handled,             \* history: a handleOnboardingComplete has finished
    migratedActive,      \* history: what the migration recorded for an active user without the value
    session              \* history: what had happened when the popup session began

onboardingVars == <<onboardingStore, updatePc, updateRead, popupOpen, loadPending,
                    onboardingCompleted, composerDetected, steps, completePending,
                    resetPc, onCompleteLog, handled, migratedActive, session>>

\* the Settings tab of the popup
VARIABLES
    tabMounted,           \* whether SettingsTab is mounted
    tabSettings,          \* SettingsTab state: settings
    settingsStatus,       \* SettingsTab state: settingsStatus
    hasHydratedSettings,  \* SettingsTab ref
    getSettingsPending,   \* the tab's GET_SETTINGS has not been answered
    effectDeps,           \* the settings and the status the persist effect last ran with
    hasCleanup,           \* whether that run returned a cleanup
    saveTimers,           \* the timers of the persist effect set and neither fired nor cleared
    saveRequests,         \* the SAVE_SETTINGS messages of the tab sent and not answered
    userChanges           \* history: the number of changes the user made

settingsVars == <<tabMounted, tabSettings, settingsStatus, hasHydratedSettings,
                  getSettingsPending, effectDeps, hasCleanup, saveTimers, saveRequests,
                  userChanges>>

\* runtime messages and the background worker's answers
VARIABLES
    request,       \* the runtime message sent and not answered
    requestPc,     \* where the background worker's handling of it is
    lastResponse,  \* what sendResponse was called with, and for which message
    exchanges      \* history: the number of messages sent

messageVars == <<request, requestPc, lastResponse, exchanges>>

\* the score overlay of the content script
VARIABLES
    overlayTree,    \* what is mounted in overlayRoot: nothing, or ScoreOverlay as last rendered
    overlayProps,   \* the props of the last overlayRoot.render
    isExpanded,     \* ScoreOverlay state
    activeTab,      \* ScoreOverlay state
    lastEvent,      \* history: the last event of the overlay and the state it met
    everExpanded    \* history: the user has expanded the details

overlayVars == <<overlayTree, overlayProps, isExpanded, activeTab, lastEvent, everExpanded>>

\* the diagnostics of the Settings tab
VARIABLES
    diagEnv,             \* what the checks meet: the active tab, its page, the stored settings
    diagnostics,         \* SettingsTab state: the checks of the last run
    diagnosticsLoading,  \* SettingsTab state
    panel,               \* what the diagnostics area of the Settings tab shows
    queriedTab           \* history: the tab chrome.tabs.query gave the last run

diagnosticsVars == <<diagEnv, diagnostics, diagnosticsLoading, panel, queriedTab>>

\* the composer on the page, as the content script sees it
VARIABLES
    composerPresent,    \* the page holds a composer
    composerText,       \* its textContent
    toolbarObserver,    \* content script: toolbarObserver is set and observing
    removedWithTimer    \* history: a debounce timer was pending when the composer was last removed

contentVars == <<composerPresent, composerText, toolbarObserver, removedWithTimer>>

extVars == <<consentVars, historyVars, debounceVars, onboardingVars, settingsVars, messageVars, overlayVars, diagnosticsVars, contentVars>>

vars == <<scanVars, scoreVars, extVars>>

---------------------------------------------------------------------------
(* Phrase algebra for the patterns                                         *)

Min(a, b) == IF a <= b THEN a ELSE b
Max(a, b) == IF a >= b THEN a ELSE b

\* one word
W(w) == {<<w>>}
\* words a and b with an optional blank gap: spaced or glued
Opt(a, b) == {<<a, b>>, <<a \o b>>}
\* concatenation of two phrase sets across a blank gap
Cat(P, Q) == {p \o q : p \in P, q \in Q}
\* phrase set of a list of alternative words
Words(S) == {<<w>> : w \in S}

---------------------------------------------------------------------------
(* The six rule tables, in source order                                    *)

OFFENSIVE_PATTERNS ==
    << [ phrases  |-> Opt("shut", "up") \cup Words({"stfu", "gtfo", "idiot", "moron"})
                      \cup Opt("dumb", "ass")
                      \cup Opt("stupid", "people") \cup Opt("stupid", "person"),
         flags    |-> {"i"},
         severity |-> "medium",
         detail   |-> "Direct insults often trigger blocks/mutes (-74x penalty each)" ],
       [ phrases  |-> Opt("kill", "yourself") \cup Opt("kill", "urself")
                      \cup Opt("kill", "them")
                      \cup {<<"die", "in">>, <<"hope", "you", "die">>, <<"death", "threat">>},
         flags    |-> {"i"},
         severity |-> "critical",
         detail   |-> "Violent language triggers reports (-369x) and potential account suspension" ],
       [ phrases  |-> Words({"retard", "retarded", "spaz", "cripple"}),
         flags    |-> {"i"},
         severity |-> "high",
         detail   |-> "Ableist language is widely reported and triggers content moderation" ],
       [ phrases  |-> Opt("trash", "person") \cup Opt("trash", "people")
                      \cup Opt("trash", "human") \cup Opt("garbage", "person")
                      \cup Opt("garbage", "people") \cup Opt("garbage", "human")
                      \cup W("worthless"),
         flags    |-> {"i"},
         severity |-> "medium",
         detail   |-> "Dehumanizing language drives reports and blocks" ] >>

HOT_BUTTON_PATTERNS ==
    << [ phrases  |-> Cat(Cat(W("all"),
                              Words({"men", "women", "liberals", "conservatives",
                                     "republicans", "democrats"})),
                          Words({"are", "should"})),
         flags    |-> {"i"},
         severity |-> "high",
         detail   |-> "Broad group generalizations trigger mass reports from the targeted group" ],
       [ phrases  |-> {<<"fake", "news">>, <<"mainstream", "media", "lies">>,
                       <<"msm", "is", "lying">>, <<"msm", "is", "dead">>},
         flags    |-> {"i"},
         severity |-> "medium",
         detail   |-> "Media criticism patterns often get flagged as misinformation" ],
       [ phrases  |-> {<<"wake", "up", "sheeple">>, <<"sheep", "mentality">>,
                       <<"npc">>, <<"npcs">>},
         flags    |-> {"i"},
         severity |-> "medium",
         detail   |-> "Dismissive language about others' intelligence triggers blocks (-74x)" ] >>

INFLAMMATORY_PATTERNS ==
    << [ phrases  |-> {<<"fight", "me">>, <<"come", "at", "me">>,
                       <<"say", "it", "to", "my", "face">>, <<"square", "up">>},
         flags    |-> {"i"},
         severity |-> "medium",
         detail   |-> "Confrontational tone drives blocks and mutes rather than constructive replies" ],
       [ phrases  |-> Cat({<<"you're">>, <<"you", "are">>},
                          {<<"wrong">>, <<"a", "idiot">>, <<"an", "idiot">>, <<"stupid">>,
                           <<"clueless">>, <<"delusional">>}),
         flags    |-> {"i"},
         severity |-> "high",
         detail   |-> "Personal attacks on individuals generate reports and blocks at high rates" ],
       [ phrases  |-> Cat(Cat(Cat({<<"everyone", "who">>}, Words({"disagrees", "thinks"})),
                              W("is")),
                          {<<"wrong">>, <<"stupid">>, <<"a", "idiot">>, <<"an", "idiot">>}),
         flags    |-> {"i"},
         severity |-> "high",
         detail   |-> "Dismissing all disagreement signals toxicity to the algorithm" ],
       [ phrases  |-> Words({"!!!", "???", "CAPS_RUN"}),
         flags    |-> {},
         severity |-> "low",
         detail   |-> "Excessive caps/punctuation reads as shouting - reduces perceived quality" ] >>

RAGE_BAIT_PATTERNS ==
    << [ phrases  |-> W("ratio") \cup Opt("ratio", "this")
                      \cup {<<"you", "got", "ratio'd">>, <<"you", "got", "ratioed">>},
         flags    |-> {"i"},
         severity |-> "low",
         detail   |-> "Ratio culture drives negative engagement - blocks outweigh any reply boost" ],
       [ phrases  |-> {<<"cope", "harder">>, <<"stay", "mad">>, <<"die", "mad">>, <<"seethe">>,
                       <<"cry", "about", "it">>, <<"cry", "more">>, <<"cry", "harder">>},
         flags    |-> {"i"},
         severity |-> "medium",
         detail   |-> "Dismissive provocation generates blocks (-74x) far more than positive engagement" ],
       [ phrases  |-> {<<"this", "will", "trigger">>, <<"watch", "them", "lose">>,
                       <<"watch", "them", "melt">>, <<"gonna", "make", "people", "mad">>},
         flags    |-> {"i"},
         severity |-> "medium",
         detail   |-> "Intentional provocation is the fastest path to reports (-369x) and algorithmic debt" ] >>

TARGETED_ATTACK_PATTERNS ==
    << [ phrases  |-> Cat({<<"@user", "is">>},
                          {<<"trash">>, <<"garbage">>, <<"worst">>, <<"terrible">>,
                           <<"a", "fraud">>, <<"a", "scam">>, <<"lying">>}),
         flags    |-> {"i"},
         severity |-> "high",
         detail   |-> "Directly attacking named users triggers their followers to report en masse" ],
       [ phrases  |-> Words({"doxx", "dox"}) \cup {<<"expose", "them">>}
                      \cup Cat(Cat(W("leak"), Words({"their", "the"})),
                               Words({"address", "info", "number"})),
         flags    |-> {"i"},
         severity |-> "critical",
         detail   |-> "Doxxing references trigger immediate reports and potential account suspension" ],
       [ phrases  |-> Cat(W("cancel"), Words({"this", "them", "her", "him"}))
                      \cup {<<"let's", "cancel">>, <<"need", "to", "be", "cancelled">>,
                            <<"needs", "to", "be", "cancelled">>},
         flags    |-> {"i"},
         severity |-> "high",
         detail   |-> "Cancel mob calls generate mass reports from the target's community" ] >>

MISINFO_PATTERNS ==
    << [ phrases  |-> Words({"exposed", "exposed!"})
                      \cup Cat(Cat(W("they"), Words({"dont", "don't"})),
                               {<<"want", "you", "to", "know">>})
                      \cup Cat({<<"the", "truth">>}, Words({"they", "about"})),
         flags    |-> {"i"},
         severity |-> "low",
         detail   |-> "Conspiracy-adjacent framing may trigger content moderation review" ],
       [ phrases  |-> {<<"do", "your", "research">>, <<"do", "your", "own", "research">>,
                       <<"look", "it", "up", "yourself">>,
                       <<"im", "just", "asking", "questions">>,
                       <<"i'm", "just", "asking", "questions">>},
         flags    |-> {"i"},
         severity |-> "low",
         detail   |-> "JAQ-ing (just asking questions) pattern is flagged by content classifiers" ],
       [ phrases  |-> {<<"100%", "proven">>, <<"scientifically", "proven">>}
                      \cup Cat(Cat(Words({"doctor", "doctors"}),
                                   Words({"dont", "don't", "wont", "won't"})),
                               {<<"tell", "you">>}),
         flags    |-> {"i"},
         severity |-> "medium",
         detail   |-> "False authority claims on health/science topics trigger community notes and reports" ] >>

\* SEVERITY_PENALTY with critical scored like high
SEVERITY_PENALTY_CriticalAsHigh ==
    [ low |-> 2, medium |-> 5, high |-> 10, critical |-> 10 ]

\* severity -> points
SEVERITY_PENALTY ==
    [ low |-> 2, medium |-> 5, high |-> 10, critical |-> 20 ]

---------------------------------------------------------------------------
(* RegExp.prototype.test and the scan                                      *)

NoResult == [ riskLevel |-> "none" ]

\* RuleFlags had the patterns been written with the global flag
RuleFlagsGlobal(rule) == rule.flags \cup {"g"}

\* the flags of a rule's RegExp literal
RuleFlags(rule) == rule.flags

\* word positions (1-based) at or after `from` where some phrase of P starts in txt
Hits(P, txt, from) ==
    {i \in (from + 1)..Len(txt) :
        \E p \in P : /\ i + Len(p) - 1 <= Len(txt)
                     /\ SubSeq(txt, i, i + Len(p) - 1) = p}

\* the end of the shortest phrase of P that starts at word i of txt
MatchEnd(P, txt, i) ==
    LET ends == {i + Len(p) - 1 : p \in {q \in P : /\ i + Len(q) - 1 <= Len(txt)
                                                   /\ SubSeq(txt, i, i + Len(q) - 1) = q}}
    IN  CHOOSE e \in ends : \A f \in ends : e <= f

\* rule.pattern.test(text) with the pattern's lastIndex li: the search starts at
\* 0 and leaves lastIndex alone unless the pattern is global or sticky; then it
\* starts at lastIndex and sets it to the end of the match, or to 0 on failure.
RegExpTest(rule, txt, li) ==
    LET flags    == RuleFlags(rule)
        stateful == ("g" \in flags) \/ ("y" \in flags)
        hits     == Hits(rule.phrases, txt, IF stateful THEN li ELSE 0)
    IN  [ found     |-> hits # {},
          lastIndex |-> IF ~stateful THEN li
                        ELSE IF hits = {} THEN 0
                        ELSE MatchEnd(rule.phrases, txt,
                                      CHOOSE i \in hits : \A j \in hits : i <= j) ]

\* 1..n as a sequence
Indices(n) == [k \in 1..n |-> k]

\* the rules of a table, by index and in table order, whose pattern.test(text)
\* succeeds
Matched(patterns, txt, li) ==
    SelectSeq(Indices(Len(patterns)),
              LAMBDA k : RegExpTest(patterns[k], txt, li[k]).found)

\* warnings.push({category, severity, message, detail, penalty}) for rule
Pushed(rule, category, categoryMessage) ==
    [ category |-> category,
      severity |-> rule.severity,
      message  |-> categoryMessage,
      detail   |-> rule.detail,
      penalty  |-> SEVERITY_PENALTY[rule.severity] ]

\* scanPatterns leaving its loop at the first rule that matches
scanPatternsBreak(patterns, category, categoryMessage, txt, li) ==
    LET matched == Matched(patterns, txt, li)
    IN  [j \in 1..Min(1, Len(matched)) |->
            Pushed(patterns[matched[j]], category, categoryMessage)]

\* the for-loop of scanPatterns(patterns, category, categoryMessage): the
\* warnings it pushes, one per rule whose pattern.test(text) succeeds, in
\* table order; li holds the lastIndex of the table's patterns
scanPatterns(patterns, category, categoryMessage, txt, li) ==
    LET matched == Matched(patterns, txt, li)
    IN  [j \in 1..Len(matched) |->
            Pushed(patterns[matched[j]], category, categoryMessage)]

\* the lastIndex the patterns of a table are left with by the call's tests
TestedIndex(patterns, txt, li) ==
    [k \in 1..Len(patterns) |-> RegExpTest(patterns[k], txt, li[k]).lastIndex]

\* warnings.reduce((sum, w) => sum + w.penalty, 0)
RECURSIVE SumTo(_, _)
SumTo(ws, n) ==
    IF n = 0 THEN 0 ELSE SumTo(ws, n - 1) + ws[n].penalty

SumPenalty(ws) == SumTo(ws, Len(ws))

\* the sort comparator: negative when a goes first
Compare(a, b) == SEVERITY_PENALTY[b.severity] - SEVERITY_PENALTY[a.severity]

\* Before for a sort that is not stable: tied elements swap
BeforeUnstable(ws, i, j) ==
    \/ Compare(ws[i], ws[j]) < 0
    \/ Compare(ws[i], ws[j]) = 0 /\ i > j

\* whether ws[i] is placed before ws[j] by Array.prototype.sort with Compare:
\* the sort is stable, so elements the comparator ties keep their order
Before(ws, i, j) ==
    \/ Compare(ws[i], ws[j]) < 0
    \/ Compare(ws[i], ws[j]) = 0 /\ i < j

\* warnings.sort(Compare)
SortWarnings(ws) ==
    LET place(i) == 1 + Cardinality({j \in 1..Len(ws) : j # i /\ Before(ws, j, i)})
    IN  [r \in 1..Len(ws) |-> ws[CHOOSE i \in 1..Len(ws) : place(i) = r]]

\* RiskScore without Math.min
RiskScoreUncapped(totalPenalty) == totalPenalty * 25

\* riskScore in tenths of a point: totalPenalty * 2.5 is totalPenalty * 25 tenths,
\* and the cap of 100 points is 1000 tenths
RiskScore(totalPenalty) == Min(1000, totalPenalty * 25)

\* RiskLevel with exclusive lower bounds
RiskLevelExclusive(riskScore) ==
    IF riskScore > 600 THEN "dangerous"
    ELSE IF riskScore > 300 THEN "risky"
    ELSE IF riskScore > 100 THEN "caution"
    ELSE "safe"

\* the threshold chain on riskScore (tenths): 60, 30 and 10 points
RiskLevel(riskScore) ==
    IF riskScore >= 600 THEN "dangerous"
    ELSE IF riskScore >= 300 THEN "risky"
    ELSE IF riskScore >= 100 THEN "caution"
    ELSE "safe"

\* the array a call starts from
NewWarnings == <<>>

\* scanForControversy(text) run with the patterns' lastIndex li: the result
\* and the lastIndex it leaves
scanForControversy(txt, li) ==
    LET warnings ==
            NewWarnings
            \o scanPatterns(OFFENSIVE_PATTERNS, "offensive_language",
                            "Offensive language detected", txt, li[1])
            \o scanPatterns(HOT_BUTTON_PATTERNS, "hot_button_topic",
                            "Polarizing topic pattern detected", txt, li[2])
            \o scanPatterns(INFLAMMATORY_PATTERNS, "inflammatory_tone",
                            "Inflammatory tone detected", txt, li[3])
            \o scanPatterns(RAGE_BAIT_PATTERNS, "rage_bait",
                            "Rage bait pattern detected", txt, li[4])
            \o scanPatterns(TARGETED_ATTACK_PATTERNS, "targeted_attack",
                            "Targeted attack pattern detected", txt, li[5])
            \o scanPatterns(MISINFO_PATTERNS, "misinfo_pattern",
                            "Misinformation-adjacent pattern detected", txt, li[6])
        totalPenalty == SumPenalty(warnings)
        riskScore    == RiskScore(totalPenalty)
    IN  [ result    |-> [ riskLevel    |-> RiskLevel(riskScore),
                          riskScore    |-> riskScore,
                          warnings     |-> SortWarnings(warnings),
                          totalPenalty |-> totalPenalty ],
          lastIndex |-> << TestedIndex(OFFENSIVE_PATTERNS, txt, li[1]),
                           TestedIndex(HOT_BUTTON_PATTERNS, txt, li[2]),
                           TestedIndex(INFLAMMATORY_PATTERNS, txt, li[3]),
                           TestedIndex(RAGE_BAIT_PATTERNS, txt, li[4]),
                           TestedIndex(TARGETED_ATTACK_PATTERNS, txt, li[5]),
                           TestedIndex(MISINFO_PATTERNS, txt, li[6]) >> ]

---------------------------------------------------------------------------
(* Inputs                                                                  *)

\* texts are made of at most MaxFragments of these word groups
Fragments ==
    { <<"hello">>, <<"person">>, <<"die">>, <<"mad">>,
      <<"stfu">>, <<"kill", "them">>, <<"hope", "you", "die">>, <<"spaz">>,
      <<"worthless">>, <<"all", "men", "are">>, <<"fake", "news">>, <<"npcs">>,
      <<"fight", "me">>, <<"you", "are", "an", "idiot">>,
      <<"everyone", "who", "thinks", "is", "wrong">>, <<"!!!">>,
      <<"ratio">>, <<"stay", "mad">>, <<"this", "will", "trigger">>,
      <<"@user", "is", "trash">>, <<"doxx">>, <<"cancel", "them">>,
      <<"exposed">>, <<"do", "your", "research">>, <<"scientifically", "proven">>,
      <<"exposed", "???">>, <<"gtfo", "retard", "dox">> }

MaxFragments == 2

RECURSIVE TextsUpTo(_)
TextsUpTo(n) ==
    IF n = 0 THEN {<<>>}
    ELSE LET shorter == TextsUpTo(n - 1)
         IN  shorter \cup {t \o f : t \in shorter, f \in Fragments}

Texts == TextsUpTo(MaxFragments)

---------------------------------------------------------------------------
(* scoreTweet: the five sub-scores, the overall score and the grade        *)

NoTweet == [ text |-> <<>> ]
NoContext == [ omitted |-> TRUE ]
NoTimestamp == [ hour |-> -1, weekday |-> FALSE ]
NoScore == [ grade |-> "none" ]
NoParts == [ total |-> -1 ]

\* component maxima
CONTENT_MAX == 25
MEDIA_MAX == 20
TIMING_MAX == 15
ENGAGEMENT_MAX == 20
RISK_MAX == 30

\* media awards
VideoPoints == 20
ImagePoints == 17
GifPoints == 16
PollPoints == 18

\* engagement bonuses
QuestionBonus == 8
CallToActionBonus == 4
QuoteTweetBonus == 3
ReplyBonus == 2

\* risk penalties
LinkPenaltyPremium == 15
LinkPenaltyNonPremium == 20
HashtagPenalty == 3
MentionPenalty == 2
TemplatePenalty == 5
SentimentPenalty == 3
ControversyCap == 10

\* length sweet spot and peak hours (start inclusive, end exclusive)
SweetSpotMin == 120
SweetSpotMax == 240
MorningPeakStart == 9
MorningPeakEnd == 12
EveningPeakStart == 19
EveningPeakEnd == 22

\* values the documents leave open: the free allowances of hashtags and
\* mentions, the split of the content and timing points, the default account
FreeHashtags == 2
FreeMentions == 2
SweetSpotPoints == 15
OffSpotPoints == 8
ThreadBonus == 5
EmojiBonus == 5
PeakPoints == 12
WeekdayBonus == 3
DefaultFollowers == 500

Clamp(x, lo, hi) == Max(lo, Min(hi, x))

\* a negative count is taken as zero
NonNeg(x) == Max(0, x)

\* the context used when the caller omits it: a typical non-premium account
DefaultContext == [ followerCount |-> DefaultFollowers, isPremium |-> FALSE ]

ContextOrDefault(ctx) == IF ctx = NoContext THEN DefaultContext ELSE ctx

\* low-effort templates: "gm", "unpopular opinion", "day X of"
TEMPLATE_PHRASES ==
    {<<"gm">>, <<"unpopular", "opinion">>} \cup Cat(Cat(W("day"), Words({"1", "2", "30"})), W("of"))

\* negative-sentiment keywords (the list is not documented)
NEGATIVE_PHRASES == Words({"hate", "awful", "disgusting"})

IsTemplate(txt) == Hits(TEMPLATE_PHRASES, txt, 0) # {}

IsNegative(txt) == Hits(NEGATIVE_PHRASES, txt, 0) # {}

\* Content: length against the sweet spot, bonuses for a thread and for emoji,
\* a penalty for a template; the empty text scores the minimum
calculateContent(tw) ==
    LET length == NonNeg(tw.length)
        base   == IF length = 0 THEN 0
                  ELSE IF length >= SweetSpotMin /\ length <= SweetSpotMax THEN SweetSpotPoints
                  ELSE OffSpotPoints
    IN  Clamp(base + (IF tw.isThread THEN ThreadBonus ELSE 0)
                   + (IF tw.hasEmoji THEN EmojiBonus ELSE 0)
                   - (IF IsTemplate(tw.text) THEN TemplatePenalty ELSE 0),
              0, CONTENT_MAX)

\* Media: a fixed award by mediaType; mediaCount adds nothing
calculateMedia(tw) ==
    IF ~tw.hasMedia THEN 0
    ELSE Clamp(CASE tw.mediaType = "video" -> VideoPoints
                 [] tw.mediaType = "image" -> ImagePoints
                 [] tw.mediaType = "gif"   -> GifPoints
                 [] tw.mediaType = "poll"  -> PollPoints
                 [] OTHER -> 0,
               0, MEDIA_MAX)

\* calculateTiming reading the clock whatever the caller supplied
TimestampNow(ts, clock) == clock

\* the timestamp the timing component evaluates: the caller's, or the current one
TimestampOf(ts, clock) == IF ts # NoTimestamp THEN ts ELSE clock

\* Timing: peak windows plus a weekday bonus; off peak on a weekend day scores
\* the minimum
calculateTiming(ts, clock) ==
    LET at   == TimestampOf(ts, clock)
        peak == \/ at.hour >= MorningPeakStart /\ at.hour < MorningPeakEnd
                \/ at.hour >= EveningPeakStart /\ at.hour < EveningPeakEnd
    IN  Clamp((IF peak THEN PeakPoints ELSE 0) + (IF at.weekday THEN WeekdayBonus ELSE 0),
              0, TIMING_MAX)

\* Engagement: additive bonuses, clamped
calculateEngagement(tw) ==
    Clamp((IF tw.hasQuestion THEN QuestionBonus ELSE 0)
          + (IF tw.hasCallToAction THEN CallToActionBonus ELSE 0)
          + (IF tw.quoteTweet THEN QuoteTweetBonus ELSE 0)
          + (IF tw.isReply THEN ReplyBonus ELSE 0),
          0, ENGAGEMENT_MAX)

\* LinkPenalty charging every account the premium rate
LinkPenaltyFlat(externalLinks, isPremium) == NonNeg(externalLinks) * LinkPenaltyPremium

\* the external-link penalty: per link, heavier for a non-premium account
LinkPenalty(externalLinks, isPremium) ==
    NonNeg(externalLinks) * (IF isPremium THEN LinkPenaltyPremium ELSE LinkPenaltyNonPremium)

\* ControversyShare without its cap
ControversyShareUncapped(totalPenalty) == totalPenalty

\* the scanner's contribution to the risk penalty: capped at a third of the budget
ControversyShare(totalPenalty) == Min(totalPenalty, ControversyCap)

\* Risk: the penalties and their total, clamped to the risk budget
calculateRisk(tw, ctx, controversy) ==
    LET parts == [ links       |-> LinkPenalty(tw.externalLinks, ctx.isPremium),
                   hashtags    |-> NonNeg(NonNeg(tw.hashtags) - FreeHashtags) * HashtagPenalty,
                   mentions    |-> NonNeg(NonNeg(tw.mentions) - FreeMentions) * MentionPenalty,
                   template    |-> IF IsTemplate(tw.text) THEN TemplatePenalty ELSE 0,
                   sentiment   |-> IF IsNegative(tw.text) THEN SentimentPenalty ELSE 0,
                   controversy |-> ControversyShare(controversy.totalPenalty) ]
    IN  [ links |-> parts.links, hashtags |-> parts.hashtags, mentions |-> parts.mentions,
          template |-> parts.template, sentiment |-> parts.sentiment,
          controversy |-> parts.controversy,
          total |-> Clamp(parts.links + parts.hashtags + parts.mentions + parts.template
                          + parts.sentiment + parts.controversy, 0, RISK_MAX) ]

\* Overall without the clamp to [0,100]
OverallUnclamped(content, media, timing, engagement, risk) ==
    content + media + timing + engagement - risk

\* the overall score stretched so that the sum of the maxima gives 100
OverallScaled(content, media, timing, engagement, risk) ==
    Clamp(((content + media + timing + engagement - risk) * 100)
              \div (CONTENT_MAX + MEDIA_MAX + TIMING_MAX + ENGAGEMENT_MAX), 0, 100)

\* overall = round(content + media + timing + engagement - risk) clamped to
\* [0,100]; the sub-scores are whole numbers, which Math.round leaves as they are
Overall(content, media, timing, engagement, risk) ==
    Clamp(content + media + timing + engagement - risk, 0, 100)

\* the grade bands
Grade(overall) ==
    IF overall >= 90 THEN "S"
    ELSE IF overall >= 80 THEN "A"
    ELSE IF overall >= 65 THEN "B"
    ELSE IF overall >= 50 THEN "C"
    ELSE IF overall >= 35 THEN "D"
    ELSE "F"

\* one suggestion per sub-score with room for improvement, then the most
\* severe controversy warning
Suggestions(breakdown, controversy) ==
    (IF breakdown.content < CONTENT_MAX
        THEN << [ type |-> "neutral", category |-> "content", impact |-> "medium" ] >>
        ELSE <<>>)
    \o (IF breakdown.media < MEDIA_MAX
        THEN << [ type |-> "positive", category |-> "media", impact |-> "high" ] >>
        ELSE <<>>)
    \o (IF breakdown.timing < TIMING_MAX
        THEN << [ type |-> "neutral", category |-> "timing", impact |-> "low" ] >>
        ELSE <<>>)
    \o (IF breakdown.engagement < ENGAGEMENT_MAX
        THEN << [ type |-> "positive", category |-> "engagement", impact |-> "high" ] >>
        ELSE <<>>)
    \o (IF breakdown.risk > 0
        THEN << [ type |-> "negative", category |-> "risk", impact |-> "medium" ] >>
        ELSE <<>>)
    \o (IF controversy.warnings # <<>>
        THEN << [ type |-> "negative", category |-> "controversy", impact |-> "high",
                  message |-> controversy.warnings[1].message ] >>
        ELSE <<>>)

\* low/median/high grow with overall and followerCount; confidence (in tenths)
\* is lower without a context
PredictedReach(overall, ctx, given) ==
    [ low        |-> (ctx.followerCount * overall) \div 200,
      median     |-> (ctx.followerCount * overall) \div 100,
      high       |-> (ctx.followerCount * overall) \div 50,
      confidence |-> IF given THEN 7 ELSE 5 ]

\* the fixed list of explained factors, each with the tweet's current value
AlgorithmFactors(tw) ==
    << [ name |-> "Reply Potential",
         currentValue |-> IF tw.hasQuestion THEN 1 ELSE 0,
         status |-> IF tw.hasQuestion THEN "optimal" ELSE "suboptimal" ],
       [ name |-> "Native Media Boost",
         currentValue |-> IF tw.hasMedia THEN 1 ELSE 0,
         status |-> IF tw.hasMedia THEN "optimal" ELSE "suboptimal" ],
       [ name |-> "External Links",
         currentValue |-> NonNeg(tw.externalLinks),
         status |-> IF NonNeg(tw.externalLinks) = 0 THEN "optimal" ELSE "harmful" ] >>

\* scoreTweet(tweet, context) with the scanner's result for tweet.text, the
\* timestamp it was given and the clock it reads otherwise
scoreTweet(tw, ctx, ts, clock, controversy) ==
    LET risk      == calculateRisk(tw, ContextOrDefault(ctx), controversy)
        breakdown == [ content    |-> calculateContent(tw),
                       media      |-> calculateMedia(tw),
                       timing     |-> calculateTiming(ts, clock),
                       engagement |-> calculateEngagement(tw),
                       risk       |-> risk.total ]
        overall   == Overall(breakdown.content, breakdown.media, breakdown.timing,
                             breakdown.engagement, breakdown.risk)
    IN  [ score |-> [ overall          |-> overall,
                      grade            |-> Grade(overall),
                      breakdown        |-> breakdown,
                      suggestions      |-> Suggestions(breakdown, controversy),
                      predictedReach   |-> PredictedReach(overall, ContextOrDefault(ctx),
                                                          ctx # NoContext),
                      algorithmFactors |-> AlgorithmFactors(tw) ],
          riskParts |-> risk ]

---------------------------------------------------------------------------
(* withConsent and the popup around it: values                             *)

MaxCalls == 3
MaxQueue == 3

Calls == 1..MaxCalls

\* a withConsent call that has not been made
NoCall ==
    [ pc |-> "none", stored |-> "unread", readAfter |-> "none", shown |-> 0,
      actions |-> 0, writes |-> 0, answer |-> "none", afterRevoke |-> FALSE,
      outcome |-> "pending" ]

\* the popup has not been used
ConsentIdle ==
    /\ consentStore = "undefined"
    /\ storageQueue = <<>>
    /\ calls = [c \in Calls |-> NoCall]
    /\ nextCall = 1
    /\ consentResolverRef = 0
    /\ showConsentModal = FALSE
    /\ isAnalyzing = FALSE
    /\ aiError = "none"
    /\ lastWrite = "none"
    /\ revokePending = FALSE

\* a settings object with every field, as the tests build it
DEFAULT_SETTINGS ==
    [ enabled |-> TRUE, showScoreInComposer |-> TRUE, showSuggestions |-> TRUE,
      analyticsEnabled |-> FALSE, onboardingCompleted |-> "false",
      aiConsentAccepted |-> "false", animationsEnabled |-> "true" ]

\* nothing stored under 'settings'
NoSettings == [ stored |-> FALSE ]

\* the content script is not running and nothing has been logged
HistoryIdle ==
    /\ storedSettings = NoSettings
    /\ scoreHistory = <<>>
    /\ currentSettings = DEFAULT_SETTINGS
    /\ currentScore = NoScore
    /\ messages = <<>>
    /\ bgQueue = <<>>
    /\ changes = <<>>
    /\ nextEntry = 1
    /\ logged = <<>>
    /\ overlapped = FALSE

NoInput == [ at |-> -1 ]
NoRun == [ at |-> -1 ]

\* no input event has been handled
DebounceIdle ==
    /\ timeMs = 0
    /\ debounceTimer = 0
    /\ timers = {}
    /\ nextTimerId = 1
    /\ inputs = 0
    /\ lastInput = NoInput
    /\ callbacksSince = 0
    /\ analysesSince = 0
    /\ lastRun = NoRun
    /\ ranInsideBurst = FALSE

\* the steps of a checklist just mounted
NoSteps == [ loaded |-> FALSE, pinned |-> FALSE, composerDetected |-> FALSE ]

\* a popup session that began before anything of note
NoSession == [ afterHandled |-> FALSE, afterMigration |-> FALSE, afterReset |-> FALSE ]

\* nothing read by the install handler
NoRead == [ read |-> FALSE ]

\* the extension installed and the popup never opened
OnboardingIdle ==
    /\ onboardingStore = "undefined"
    /\ updatePc = "none"
    /\ updateRead = NoRead
    /\ popupOpen = FALSE
    /\ loadPending = FALSE
    /\ onboardingCompleted = FALSE
    /\ composerDetected = FALSE
    /\ steps = NoSteps
    /\ completePending = {}
    /\ resetPc = "none"
    /\ onCompleteLog = <<>>
    /\ handled = FALSE
    /\ migratedActive = "none"
    /\ session = NoSession

\* the Settings tab not mounted
SettingsIdle ==
    /\ tabMounted = FALSE
    /\ tabSettings = DEFAULT_SETTINGS
    /\ settingsStatus = "loading"
    /\ hasHydratedSettings = FALSE
    /\ getSettingsPending = FALSE
    /\ effectDeps = <<DEFAULT_SETTINGS, "loading">>
    /\ hasCleanup = FALSE
    /\ saveTimers = {}
    /\ saveRequests = <<>>
    /\ userChanges = 0

\* no runtime message
NoRequest == [ type |-> "none" ]

\* no answer
NoResponse == [ to |-> "none" ]

\* no runtime message sent yet
MessageIdle ==
    /\ request = NoRequest
    /\ requestPc = "none"
    /\ lastResponse = NoResponse
    /\ exchanges = 0

\* the props before the first render
NoProps == [ rendered |-> FALSE ]

\* no event of the overlay yet
NoEvent == [ kind |-> "none" ]

\* createOverlay has made the root and nothing is rendered into it
OverlayIdle ==
    /\ overlayTree = "unmounted"
    /\ overlayProps = NoProps
    /\ isExpanded = FALSE
    /\ activeTab = "suggestions"
    /\ lastEvent = NoEvent
    /\ everExpanded = FALSE

\* chrome.tabs.query answers with no tab
NoTab == [ present |-> FALSE ]

\* a tab that has no url
NoUrl == [ scheme |-> "", hostname |-> <<>> ]

\* the Settings tab is not open: nothing is checked
NoEnv == [ tab |-> NoTab, query |-> "none", composerOpen |-> FALSE, executeScript |-> "none",
           getSettings |-> "none", enabled |-> FALSE, showScoreInComposer |-> FALSE ]

\* the diagnostics area while the checks run
LoadingPanel == [ kind |-> "loading" ]

\* no diagnostics have run
DiagnosticsIdle ==
    /\ diagEnv = NoEnv
    /\ diagnostics = <<>>
    /\ diagnosticsLoading = TRUE
    /\ panel = LoadingPanel
    /\ queriedTab = NoTab

\* the page holds no composer
ContentIdle ==
    /\ composerPresent = FALSE
    /\ composerText = ""
    /\ toolbarObserver = FALSE
    /\ removedWithTimer = FALSE

ExtIdle == ConsentIdle /\ HistoryIdle /\ DebounceIdle /\ OnboardingIdle /\ SettingsIdle /\ MessageIdle /\ OverlayIdle /\ DiagnosticsIdle /\ ContentIdle

---------------------------------------------------------------------------
(* The program                                                             *)

\* lastIndex of the freshly compiled patterns, table by table
NoIndex == << <<0, 0, 0, 0>>, <<0, 0, 0>>, <<0, 0, 0, 0>>, <<0, 0, 0>>, <<0, 0, 0>>, <<0, 0, 0>> >>

\* no scoreTweet call is under way
ScoreIdle ==
    /\ tweet = NoTweet
    /\ context = NoContext
    /\ timestamp = NoTimestamp
    /\ now = NoTimestamp
    /\ score = NoScore
    /\ riskParts = NoParts
    /\ scoredAt = NoTimestamp
    /\ firstScore = NoScore
    /\ firstAt = NoTimestamp

Init ==
    /\ text \in Texts
    /\ result = NoResult
    /\ lastIndex = NoIndex
    /\ firstText = <<>>
    /\ firstResult = NoResult
    /\ otherCalls = FALSE
    /\ ScoreIdle
    /\ ExtIdle

\* one call scanForControversy(t)
Call(t) ==
    LET r == scanForControversy(t, lastIndex)
    IN  /\ text' = t
        /\ result' = r.result
        /\ lastIndex' = r.lastIndex
        /\ firstText' = IF firstResult = NoResult THEN t ELSE firstText
        /\ firstResult' = IF firstResult = NoResult THEN r.result ELSE firstResult
        /\ otherCalls' = (otherCalls \/ (firstResult # NoResult /\ t # firstText))

\* the call on the text drawn by Init
Scan ==
    /\ result = NoResult
    /\ Call(text)
    /\ UNCHANGED <<scoreVars, extVars>>

Next == Scan

Spec == Init /\ [][Next]_vars

\* A caller that scans one text after another, any number of times
CallTexts ==
    { <<>>, <<"hello">>, <<"ratio">>, <<"stfu">>, <<"spaz">>, <<"kill", "them">>,
      <<"ratio", "!!!">>, <<"you", "are", "an", "idiot">>, <<"kill", "them", "stfu">>,
      <<"doxx", "kill", "them">>, <<"doxx", "hope", "you", "die", "stfu">>,
      <<"cancel", "them", "spaz", "all", "men", "are", "exposed">> }

InitCalls ==
    /\ text = <<>>
    /\ result = NoResult
    /\ lastIndex = NoIndex
    /\ firstText = <<>>
    /\ firstResult = NoResult
    /\ otherCalls = FALSE
    /\ ScoreIdle
    /\ ExtIdle

ScanAgain(t) ==
    /\ Call(t)
    /\ UNCHANGED <<scoreVars, extVars>>

NextCalls == \E t \in CallTexts : ScanAgain(t)

SpecCalls == InitCalls /\ [][NextCalls]_vars

\* A caller that scores one draft, with one context, again and again while
\* time passes
MaxLinks == 2
MaxHashtags == 5
MaxMentions == 4

TweetTexts ==
    { <<"hello">>, <<"ratio">>, <<"gm", "hate">>, <<"gm", "hate", "kill", "them">> }

\* what the composer shows besides the text: media, thread, length, signals
Drafts ==
    { [ hasMedia |-> FALSE, mediaType |-> "none", mediaCount |-> 0, length |-> 0,
        isThread |-> FALSE, threadLength |-> 1, hasEmoji |-> FALSE,
        hasQuestion |-> FALSE, hasCallToAction |-> FALSE, quoteTweet |-> FALSE,
        isReply |-> FALSE ],
      [ hasMedia |-> TRUE, mediaType |-> "image", mediaCount |-> 2, length |-> 60,
        isThread |-> FALSE, threadLength |-> 1, hasEmoji |-> TRUE,
        hasQuestion |-> TRUE, hasCallToAction |-> FALSE, quoteTweet |-> FALSE,
        isReply |-> TRUE ],
      [ hasMedia |-> TRUE, mediaType |-> "poll", mediaCount |-> 1, length |-> 300,
        isThread |-> TRUE, threadLength |-> 3, hasEmoji |-> FALSE,
        hasQuestion |-> FALSE, hasCallToAction |-> TRUE, quoteTweet |-> TRUE,
        isReply |-> FALSE ],
      [ hasMedia |-> TRUE, mediaType |-> "video", mediaCount |-> 1, length |-> 180,
        isThread |-> TRUE, threadLength |-> 2, hasEmoji |-> TRUE,
        hasQuestion |-> TRUE, hasCallToAction |-> TRUE, quoteTweet |-> TRUE,
        isReply |-> TRUE ] }

DraftTweet(d, t, links, tags, ats) ==
    [ text |-> t, externalLinks |-> links, hashtags |-> tags, mentions |-> ats,
      hasMedia |-> d.hasMedia, mediaType |-> d.mediaType, mediaCount |-> d.mediaCount,
      length |-> d.length, isThread |-> d.isThread, threadLength |-> d.threadLength,
      hasEmoji |-> d.hasEmoji, hasQuestion |-> d.hasQuestion,
      hasCallToAction |-> d.hasCallToAction, quoteTweet |-> d.quoteTweet,
      isReply |-> d.isReply ]

Tweets ==
    { DraftTweet(d, t, links, tags, ats) :
        d \in Drafts, t \in TweetTexts, links \in (-1)..MaxLinks,
        tags \in {0, MaxHashtags}, ats \in {0, MaxMentions} }

Contexts ==
    { NoContext,
      [ followerCount |-> 1000, isPremium |-> FALSE ],
      [ followerCount |-> 1000, isPremium |-> TRUE ] }

\* a weekday morning in the peak window and a weekend afternoon off peak
Moments == { [ hour |-> 10, weekday |-> TRUE ], [ hour |-> 15, weekday |-> FALSE ] }

InitScore ==
    /\ text = <<>>
    /\ result = NoResult
    /\ lastIndex = NoIndex
    /\ firstText = <<>>
    /\ firstResult = NoResult
    /\ otherCalls = FALSE
    /\ tweet \in Tweets
    /\ context \in Contexts
    /\ timestamp \in {NoTimestamp, [ hour |-> 20, weekday |-> TRUE ]}
    /\ now \in Moments
    /\ score = NoScore
    /\ riskParts = NoParts
    /\ scoredAt = NoTimestamp
    /\ firstScore = NoScore
    /\ firstAt = NoTimestamp
    /\ ExtIdle

\* one call scoreTweet(tweet, context), which scans tweet.text
ScoreTweet ==
    LET r == scanForControversy(tweet.text, lastIndex)
        s == scoreTweet(tweet, context, timestamp, now, r.result)
    IN  /\ text' = tweet.text
        /\ result' = r.result
        /\ lastIndex' = r.lastIndex
        /\ score' = s.score
        /\ riskParts' = s.riskParts
        /\ scoredAt' = now
        /\ firstScore' = IF firstScore = NoScore THEN s.score ELSE firstScore
        /\ firstAt' = IF firstScore = NoScore THEN now ELSE firstAt
        /\ UNCHANGED <<firstText, firstResult, otherCalls, tweet, context, timestamp, now>>
        /\ UNCHANGED extVars

\* time passes
Tick ==
    /\ \E m \in Moments : m # now /\ now' = m
    /\ UNCHANGED <<text, result, lastIndex, firstText, firstResult, otherCalls,
                   tweet, context, timestamp, score, riskParts, scoredAt,
                   firstScore, firstAt>>
    /\ UNCHANGED extVars

NextScore == ScoreTweet \/ Tick

SpecScore == InitScore /\ [][NextScore]_vars

---------------------------------------------------------------------------
(* withConsent and the popup around it: the program                        *)

\* the scanner and the scorer are not in use
ScanIdle ==
    /\ text = <<>>
    /\ result = NoResult
    /\ lastIndex = NoIndex
    /\ firstText = <<>>
    /\ firstResult = NoResult
    /\ otherCalls = FALSE

\* stored[consentKey] === true, taking any defined value but false as consent
consentAcceptedLoose(stored) == stored # "false"

\* stored[consentKey] === true
consentAccepted(stored) == stored = "true"

\* if (accepted), going on whatever the modal resolved
ProceedAlways(accepted) == TRUE

\* if (accepted)
Proceed(accepted) == accepted

\* the value written when the user accepts, were it not true
AcceptedValueFalse == "false"

\* chrome.storage.local.set({ [consentKey]: true })
AcceptedValue == "true"

\* handleRevokeAIConsent leaving the stored value as it is
RevokedValueKept(current) == current

\* chrome.storage.local.set({ aiConsentAccepted: false })
RevokedValue(current) == "false"

\* return action(): the action starts the AI request and marks the popup busy
InvokeAction(cs, c) ==
    [cs EXCEPT ![c].pc = "action", ![c].actions = @ + 1]

\* handleAIAnalysis: a click on the Analyze button; offline it shows an error,
\* during an analysis it does nothing, otherwise it calls withConsent, which
\* asks the storage for the stored consent
handleAIAnalysis(online) ==
    /\ ~showConsentModal
    /\ nextCall <= MaxCalls
    /\ Len(storageQueue) < MaxQueue
    /\ IF ~online
       THEN /\ aiError' = "offline"
            /\ UNCHANGED <<consentStore, storageQueue, calls, nextCall, consentResolverRef,
                           showConsentModal, isAnalyzing, lastWrite, revokePending>>
       ELSE IF isAnalyzing
       THEN UNCHANGED consentVars
       ELSE /\ calls' = [calls EXCEPT ![nextCall].pc = "get",
                                      ![nextCall].afterRevoke = revokePending]
            /\ storageQueue' = Append(storageQueue, [op |-> "get", call |-> nextCall])
            /\ nextCall' = nextCall + 1
            /\ revokePending' = FALSE
            /\ UNCHANGED <<consentStore, consentResolverRef, showConsentModal,
                           isAnalyzing, aiError, lastWrite>>
    /\ UNCHANGED <<scanVars, scoreVars, historyVars, debounceVars, onboardingVars, settingsVars, messageVars, overlayVars, diagnosticsVars, contentVars>>

\* the storage answers the get of call c: withConsent goes on from its first
\* await, to the action or to showModal
GetResolves(c) ==
    LET read == [calls EXCEPT ![c].stored = consentStore, ![c].readAfter = lastWrite]
    IN  /\ storageQueue' = Tail(storageQueue)
        /\ IF consentAccepted(consentStore)
           THEN /\ calls' = InvokeAction(read, c)
                /\ isAnalyzing' = TRUE
                /\ aiError' = "none"
                /\ UNCHANGED <<consentResolverRef, showConsentModal>>
           ELSE /\ calls' = [read EXCEPT ![c].pc = "modal", ![c].shown = @ + 1]
                /\ consentResolverRef' = c
                /\ showConsentModal' = TRUE
                /\ UNCHANGED <<isAnalyzing, aiError>>
        /\ UNCHANGED <<consentStore, nextCall, lastWrite, revokePending>>

\* the storage carries out the set of call c: consent is stored, and withConsent
\* goes on to the action
SetResolves(c, value) ==
    /\ storageQueue' = Tail(storageQueue)
    /\ consentStore' = value
    /\ lastWrite' = "accept"
    /\ calls' = InvokeAction([calls EXCEPT ![c].writes = @ + 1], c)
    /\ isAnalyzing' = TRUE
    /\ aiError' = "none"
    /\ UNCHANGED <<nextCall, consentResolverRef, showConsentModal, revokePending>>

\* the storage carries out the set of handleRevokeAIConsent
RevokeResolves(value) ==
    /\ storageQueue' = Tail(storageQueue)
    /\ consentStore' = value
    /\ lastWrite' = "revoke"
    /\ UNCHANGED <<calls, nextCall, consentResolverRef, showConsentModal, isAnalyzing,
                   aiError, revokePending>>

\* chrome.storage.local carries out the operations in the order they were issued
StorageStep ==
    /\ storageQueue # <<>>
    /\ LET head == Head(storageQueue)
       IN  IF head.op = "get" THEN GetResolves(head.call)
           ELSE IF head.call # 0 THEN SetResolves(head.call, head.value)
           ELSE RevokeResolves(head.value)
    /\ UNCHANGED <<scanVars, scoreVars, historyVars, debounceVars, onboardingVars, settingsVars, messageVars, overlayVars, diagnosticsVars, contentVars>>

\* handleConsentAccept / handleConsentDecline: the modal closes and resolves the
\* promise of the call held in consentResolverRef; withConsent goes on from
\* its second await, to the write or to the rejection
ModalResolves(accepted) ==
    /\ showConsentModal
    /\ showConsentModal' = FALSE
    /\ consentResolverRef' = 0
    /\ IF consentResolverRef = 0
       THEN UNCHANGED <<calls, storageQueue, revokePending>>
       ELSE LET c        == consentResolverRef
                answered == [calls EXCEPT ![c].answer = IF accepted THEN "true" ELSE "false"]
            IN  IF Proceed(accepted)
                THEN /\ calls' = [answered EXCEPT ![c].pc = "set"]
                     /\ storageQueue' = Append(storageQueue,
                            [op |-> "set", call |-> c, value |-> AcceptedValue])
                     /\ revokePending' = FALSE
                ELSE /\ calls' = [answered EXCEPT ![c].pc = "rejected",
                                                  ![c].outcome = "Consent declined"]
                     /\ UNCHANGED <<storageQueue, revokePending>>
    /\ UNCHANGED <<consentStore, nextCall, isAnalyzing, aiError, lastWrite>>
    /\ UNCHANGED <<scanVars, scoreVars, historyVars, debounceVars, onboardingVars, settingsVars, messageVars, overlayVars, diagnosticsVars, contentVars>>

handleConsentAccept == ModalResolves(TRUE)

handleConsentDecline == ModalResolves(FALSE)

\* the action of call c ends: with the AI's answer, or by throwing
ActionEnds(c, ok) ==
    /\ calls[c].pc = "action"
    /\ calls' = [calls EXCEPT ![c].pc = IF ok THEN "done" ELSE "failed",
                              ![c].outcome = IF ok THEN "result" ELSE "action threw"]
    /\ isAnalyzing' = FALSE
    /\ aiError' = IF ok THEN aiError ELSE "Analysis failed"
    /\ UNCHANGED <<consentStore, storageQueue, nextCall, consentResolverRef,
                   showConsentModal, lastWrite, revokePending>>
    /\ UNCHANGED <<scanVars, scoreVars, historyVars, debounceVars, onboardingVars, settingsVars, messageVars, overlayVars, diagnosticsVars, contentVars>>

\* handleRevokeAIConsent: a click on 'Revoke AI consent' in Settings
handleRevokeAIConsent ==
    /\ ~showConsentModal
    /\ Len(storageQueue) < MaxQueue
    /\ storageQueue' = Append(storageQueue,
           [op |-> "set", call |-> 0, value |-> RevokedValue(consentStore)])
    /\ revokePending' = TRUE
    /\ UNCHANGED <<consentStore, calls, nextCall, consentResolverRef, showConsentModal,
                   isAnalyzing, aiError, lastWrite>>
    /\ UNCHANGED <<scanVars, scoreVars, historyVars, debounceVars, onboardingVars, settingsVars, messageVars, overlayVars, diagnosticsVars, contentVars>>

\* the consent may be stored already when the popup opens
InitConsent ==
    /\ ScanIdle
    /\ ScoreIdle
    /\ ContentIdle
    /\ DiagnosticsIdle
    /\ OverlayIdle
    /\ MessageIdle
    /\ SettingsIdle
    /\ consentStore \in {"undefined", "false", "true"}
    /\ storageQueue = <<>>
    /\ calls = [c \in Calls |-> NoCall]
    /\ nextCall = 1
    /\ consentResolverRef = 0
    /\ showConsentModal = FALSE
    /\ isAnalyzing = FALSE
    /\ aiError = "none"
    /\ lastWrite = "none"
    /\ revokePending = FALSE
    /\ HistoryIdle
    /\ DebounceIdle
    /\ OnboardingIdle

NextConsent ==
    \/ \E online \in BOOLEAN : handleAIAnalysis(online)
    \/ StorageStep
    \/ handleConsentAccept
    \/ handleConsentDecline
    \/ \E c \in Calls, ok \in BOOLEAN : ActionEnds(c, ok)
    \/ handleRevokeAIConsent

SpecConsent == InitConsent /\ [][NextConsent]_vars

---------------------------------------------------------------------------
(* ScoreOverlay: what a render by the content script leaves in overlayRoot *)

\* shouldShowOverlay() looking at enabled only
shouldShowOverlayIfEnabled == currentSettings.enabled

\* shouldShowOverlay()
shouldShowOverlay == currentSettings.enabled /\ currentSettings.showScoreInComposer

\* the scores the overlay is rendered with: none, or one of two
OverlayScores == { NoScore, [ overall |-> 70 ], [ overall |-> 85 ] }

\* const hasScore = !!score
hasScore(sc) == sc # NoScore

\* the hooks a render of ScoreOverlay calls: the early return for
\* isVisible = false comes after the state hooks and before the others
HooksOf(isVisible) == IF isVisible THEN "full" ELSE "short"

\* what a render leaves in the root: a first render mounts the component; a
\* later render that calls other hooks than the last one throws in React, and
\* the root, which has no error boundary, is unmounted
TreeAfter(tree, isVisible) ==
    IF tree \in {"unmounted", HooksOf(isVisible)} THEN HooksOf(isVisible) ELSE "unmounted"

\* the header's onClick expanding whether or not there is a score
OnClickAlways(sc, v) == ~v

\* the header's onClick: if (!hasScore) return; setIsExpanded((v) => !v)
OnClick(sc, v) == IF hasScore(sc) THEN ~v ELSE v

\* the effect on [score], with the state as the render found it: collapse
\* when the score is gone; a new mount starts collapsed
ExpandedAfterRender(tree, isVisible, sc, v) ==
    IF TreeAfter(tree, isVisible) = "full" /\ tree = "full" /\ hasScore(sc) THEN v ELSE FALSE

\* the effects on [score] and on [activeTab, showSuggestions], likewise: the
\* first tab when the score is gone, and never the suggestions when they are
\* switched off
TabAfterRender(tree, isVisible, sc, showSuggestions, tab) ==
    LET kept == IF TreeAfter(tree, isVisible) = "full" /\ tree = "full" /\ hasScore(sc)
                THEN tab ELSE "suggestions"
    IN  IF kept = "suggestions" /\ ~showSuggestions /\ TreeAfter(tree, isVisible) = "full"
        THEN "breakdown" ELSE kept

\* the tabs of the expanded overlay
Tabs(showSuggestions) ==
    IF showSuggestions THEN {"suggestions", "breakdown", "factors"}
    ELSE {"breakdown", "factors"}

\* const expanded = isExpanded && hasScore, in a tree that renders the card
Expanded ==
    /\ overlayTree = "full"
    /\ isExpanded
    /\ hasScore(overlayProps.score)

\* the card is on the page
OverlayVisible == overlayTree = "full"

\* updateOverlay(score, isVisible): overlayRoot.render, and the effects of
\* ScoreOverlay
RenderingWith(settings, sc, isVisible) ==
    /\ overlayTree' = TreeAfter(overlayTree, isVisible)
    /\ overlayProps' = [ rendered |-> TRUE, score |-> sc, isVisible |-> isVisible,
                          showSuggestions |-> settings.showSuggestions ]
    /\ isExpanded' = ExpandedAfterRender(overlayTree, isVisible, sc, isExpanded)
    /\ activeTab' = TabAfterRender(overlayTree, isVisible, sc,
                                   settings.showSuggestions, activeTab)
    /\ lastEvent' = [ kind |-> "render", wasExpanded |-> isExpanded,
                      hadScore |-> overlayProps # NoProps /\ hasScore(overlayProps.score) ]
    /\ UNCHANGED everExpanded

\* the same with the settings the content script holds
Rendering(sc, isVisible) == RenderingWith(currentSettings, sc, isVisible)

---------------------------------------------------------------------------
(* Logging a score on Post: content script, background worker, storage     *)

HISTORY_LIMIT == 100
MaxLogs == 3
MaxInFlight == 2

\* [...].slice(0, n): the first n
SliceFirst(h, n) == SubSeq(h, 1, Min(n, Len(h)))

\* [...].slice(-n): the last n
SliceLast(h, n) == SubSeq(h, Max(1, Len(h) - n + 1), Len(h))

\* an entry as logScoreOnPost builds it: Date.now() and the overall score
Entry(i, overall) == [ timestamp |-> i, score |-> overall ]

\* the history of a user who has logged k posts before, one after another
EarlierLogs == HISTORY_LIMIT - 2

EarlierEntries(k) == [i \in 1..k |-> Entry(i, 50)]

\* the entries created since the run started (it starts with none or with
\* EarlierLogs entries, and MaxLogs is the smaller number)
NewEntries == IF nextEntry > EarlierLogs THEN nextEntry - 1 - EarlierLogs ELSE nextEntry - 1

\* logScoreOnPost without its guards
ShouldLogAlways(settings, sc) == TRUE

\* logScoreOnPost: the two early returns
ShouldLog(settings, sc) == settings.analyticsEnabled /\ sc # NoScore

\* analyzeDraft: the draft is scored, the score kept in currentScore and
\* shown in the overlay
analyzeDraft ==
    /\ currentSettings.enabled /\ currentSettings.showScoreInComposer
    /\ currentScore' = [ overall |-> 70 ]
    /\ Rendering(currentScore', TRUE)
    /\ UNCHANGED <<storedSettings, scoreHistory, currentSettings, messages, bgQueue,
                   changes, nextEntry, logged, overlapped>>
    /\ UNCHANGED <<scanVars, scoreVars, consentVars, debounceVars, onboardingVars, settingsVars, messageVars, diagnosticsVars, contentVars>>

\* logScoreOnPost: a click on the Post button
logScoreOnPost ==
    /\ IF ShouldLog(currentSettings, currentScore)
       THEN /\ Len(messages) < MaxInFlight
            /\ NewEntries < MaxLogs
            /\ messages' = Append(messages,
                   Entry(nextEntry, IF currentScore = NoScore THEN -1 ELSE currentScore.overall))
            /\ nextEntry' = nextEntry + 1
       ELSE UNCHANGED <<messages, nextEntry>>
    /\ UNCHANGED <<storedSettings, scoreHistory, currentSettings, currentScore, bgQueue,
                   changes, logged, overlapped>>
    /\ UNCHANGED <<scanVars, scoreVars, consentVars, debounceVars, onboardingVars, settingsVars, messageVars, overlayVars, diagnosticsVars, contentVars>>

\* a storage operation of logScoreHistory is still to be carried out
StoringEntry == \E i \in 1..Len(bgQueue) : bgQueue[i].op \in {"get", "set"}

\* onMessage, case 'LOG_SCORE': logScoreHistory is started, which asks the
\* storage for scoreHistory, and the response is sent without waiting for it
onMessageLogScore ==
    /\ messages # <<>>
    /\ Len(bgQueue) < MaxQueue
    /\ messages' = Tail(messages)
    /\ bgQueue' = Append(bgQueue, [ op |-> "get", scoreData |-> Head(messages) ])
    /\ logged' = Append(logged, Head(messages))
    /\ overlapped' = (overlapped \/ StoringEntry)
    /\ UNCHANGED <<storedSettings, scoreHistory, currentSettings, currentScore, changes,
                   nextEntry>>
    /\ UNCHANGED <<scanVars, scoreVars, consentVars, debounceVars, onboardingVars, settingsVars, messageVars, overlayVars, diagnosticsVars, contentVars>>

\* onMessage, case 'SAVE_SETTINGS': the popup's Settings tab saves the
\* settings with analytics switched on or off
onMessageSaveSettings(analyticsEnabled) ==
    /\ storedSettings # NoSettings
    /\ Len(bgQueue) < MaxQueue
    /\ \A i \in 1..Len(bgQueue) : bgQueue[i].op # "settings"
    /\ changes = <<>>
    /\ bgQueue' = Append(bgQueue,
           [ op |-> "settings",
             value |-> [storedSettings EXCEPT !.analyticsEnabled = analyticsEnabled] ])
    /\ UNCHANGED <<storedSettings, scoreHistory, currentSettings, currentScore, messages,
                   changes, nextEntry, logged, overlapped>>
    /\ UNCHANGED <<scanVars, scoreVars, consentVars, debounceVars, onboardingVars, settingsVars, messageVars, overlayVars, diagnosticsVars, contentVars>>

\* chrome.storage.local carries out the worker's operations in the order they
\* were issued; logScoreHistory goes on from its await
BackgroundStorageStep ==
    /\ bgQueue # <<>>
    /\ LET head == Head(bgQueue)
       IN  CASE head.op = "get" ->
                  \* const updatedHistory = [...scoreHistory, scoreData].slice(-100)
                  /\ bgQueue' = Append(Tail(bgQueue),
                         [ op |-> "set",
                           value |-> SliceLast(Append(scoreHistory, head.scoreData),
                                               HISTORY_LIMIT) ])
                  /\ UNCHANGED <<storedSettings, scoreHistory, changes>>
             [] head.op = "set" ->
                  /\ bgQueue' = Tail(bgQueue)
                  /\ scoreHistory' = head.value
                  /\ UNCHANGED <<storedSettings, changes>>
             [] head.op = "settings" ->
                  /\ bgQueue' = Tail(bgQueue)
                  /\ storedSettings' = head.value
                  /\ changes' = Append(changes, head.value)
                  /\ UNCHANGED scoreHistory
    /\ UNCHANGED <<currentSettings, currentScore, messages, nextEntry, logged, overlapped>>
    /\ UNCHANGED <<scanVars, scoreVars, consentVars, debounceVars, onboardingVars, settingsVars, messageVars, overlayVars, diagnosticsVars, contentVars>>

\* storage.onChanged in the content script: currentSettings = next, and the
\* overlay is hidden if next switches it off
onChangedSettings ==
    /\ changes # <<>>
    /\ changes' = Tail(changes)
    /\ currentSettings' = Head(changes)
    /\ IF ~shouldShowOverlay'
       THEN RenderingWith(currentSettings', NoScore, FALSE)
       ELSE UNCHANGED overlayVars
    /\ UNCHANGED <<storedSettings, scoreHistory, currentScore, messages, bgQueue,
                   nextEntry, logged, overlapped>>
    /\ UNCHANGED <<scanVars, scoreVars, consentVars, debounceVars, onboardingVars, settingsVars, messageVars, diagnosticsVars, contentVars>>

\* the content script has loaded the stored settings; the user has logged no
\* post yet, or EarlierLogs posts
InitHistory ==
    /\ ScanIdle
    /\ ScoreIdle
    /\ ContentIdle
    /\ DiagnosticsIdle
    /\ OverlayIdle
    /\ MessageIdle
    /\ SettingsIdle
    /\ ConsentIdle
    /\ \E analyticsEnabled \in BOOLEAN :
           storedSettings = [DEFAULT_SETTINGS EXCEPT !.analyticsEnabled = analyticsEnabled]
    /\ currentSettings = storedSettings
    /\ \E k \in {0, EarlierLogs} :
           /\ scoreHistory = EarlierEntries(k)
           /\ logged = EarlierEntries(k)
           /\ nextEntry = k + 1
    /\ currentScore = NoScore
    /\ messages = <<>>
    /\ bgQueue = <<>>
    /\ changes = <<>>
    /\ overlapped = FALSE
    /\ DebounceIdle
    /\ OnboardingIdle

NextHistory ==
    \/ analyzeDraft
    \/ logScoreOnPost
    \/ onMessageLogScore
    \/ \E analyticsEnabled \in BOOLEAN : onMessageSaveSettings(analyticsEnabled)
    \/ BackgroundStorageStep
    \/ onChangedSettings

SpecHistory == InitHistory /\ [][NextHistory]_vars

---------------------------------------------------------------------------
(* The debounced input handler of the content script                       *)

DEBOUNCE_MS == 150
TICK_MS == 50
MaxTime == 500
MaxInputs == 3

\* what the composer can hold
ComposerTexts == {"", "   ", "gm", "gm all"}

\* text.trim()
Trim(t) == IF t = "   " THEN "" ELSE t

\* text.trim().length > 0
IsAnalysable(t) == Trim(t) # ""

\* if (debounceTimer) clearTimeout(debounceTimer), with the clearing left out
ClearTimeoutNever(pending, id) == pending

\* if (debounceTimer) clearTimeout(debounceTimer)
ClearTimeout(pending, id) == IF id # 0 THEN {t \in pending : t.id # id} ELSE pending

\* handleComposerInput: an input event in the composer, which now holds t; the
\* pending timer is cleared and a new one set, capturing t
handleComposerInput(t) ==
    /\ composerPresent
    /\ composerText' = t
    /\ UNCHANGED <<composerPresent, toolbarObserver, removedWithTimer>>
    /\ inputs < MaxInputs
    /\ timeMs + DEBOUNCE_MS <= MaxTime
    /\ timers' = ClearTimeout(timers, debounceTimer)
                     \cup { [ id |-> nextTimerId, due |-> timeMs + DEBOUNCE_MS, text |-> t ] }
    /\ debounceTimer' = nextTimerId
    /\ nextTimerId' = nextTimerId + 1
    /\ inputs' = inputs + 1
    /\ lastInput' = [ at |-> timeMs, text |-> t ]
    /\ callbacksSince' = 0
    /\ analysesSince' = 0
    /\ ranInsideBurst' = (ranInsideBurst \/ (/\ lastInput # NoInput
                                             /\ timeMs - lastInput.at < DEBOUNCE_MS
                                             /\ callbacksSince > 0))
    /\ UNCHANGED <<timeMs, lastRun>>
    /\ UNCHANGED <<scanVars, scoreVars, consentVars, historyVars, onboardingVars, settingsVars, messageVars, overlayVars, diagnosticsVars>>

\* the timer fires, at its due time or later: the callback of handleComposerInput
TimerFires(timer) ==
    /\ timer \in timers
    /\ timeMs >= timer.due
    /\ timers' = timers \ {timer}
    /\ callbacksSince' = callbacksSince + 1
    /\ IF shouldShowOverlay /\ IsAnalysable(timer.text)
       THEN \* analyzeDraft(text)
            /\ currentScore' = [ overall |-> 70 ]
            /\ Rendering(currentScore', TRUE)
            /\ analysesSince' = analysesSince + 1
            /\ lastRun' = [ at |-> timeMs, text |-> timer.text,
                            overlay |-> shouldShowOverlay, analysed |-> TRUE ]
       ELSE \* updateOverlay(null, false) if the overlay is off, else updateOverlay(null, true)
            /\ Rendering(NoScore, shouldShowOverlay)
            /\ lastRun' = [ at |-> timeMs, text |-> timer.text,
                            overlay |-> shouldShowOverlay, analysed |-> FALSE ]
            /\ UNCHANGED <<currentScore, analysesSince>>
    /\ UNCHANGED <<timeMs, debounceTimer, nextTimerId, inputs, lastInput, ranInsideBurst>>
    /\ UNCHANGED <<storedSettings, scoreHistory, currentSettings, messages, bgQueue,
                   changes, nextEntry, logged, overlapped>>
    /\ UNCHANGED <<scanVars, scoreVars, consentVars, onboardingVars, settingsVars, messageVars, diagnosticsVars, contentVars>>

\* a due timer's callback runs
RunTimers == \E timer \in timers : TimerFires(timer)

\* time passes
TickMs ==
    /\ timeMs + TICK_MS <= MaxTime
    /\ timeMs' = timeMs + TICK_MS
    /\ UNCHANGED <<debounceTimer, timers, nextTimerId, inputs, lastInput,
                   callbacksSince, analysesSince, lastRun, ranInsideBurst>>
    /\ UNCHANGED <<scanVars, scoreVars, consentVars, historyVars, onboardingVars, settingsVars, messageVars, overlayVars, diagnosticsVars, contentVars>>

\* the overlay as setupComposerListeners leaves it when it meets an empty
\* composer: updateOverlay(null, shouldShowOverlay()) into the new root
OverlayAfterSetup ==
    /\ overlayTree = HooksOf(shouldShowOverlay)
    /\ overlayProps = [ rendered |-> TRUE, score |-> NoScore, isVisible |-> shouldShowOverlay,
                         showSuggestions |-> currentSettings.showSuggestions ]
    /\ isExpanded = FALSE
    /\ activeTab = TabAfterRender("unmounted", shouldShowOverlay, NoScore,
                                  currentSettings.showSuggestions, "suggestions")
    /\ lastEvent = [ kind |-> "render", wasExpanded |-> FALSE, hadScore |-> FALSE ]
    /\ everExpanded = FALSE

\* an empty composer is open and setupComposerListeners has run on it
ComposerOpen ==
    /\ composerPresent = TRUE
    /\ composerText = ""
    /\ toolbarObserver = TRUE
    /\ removedWithTimer = FALSE

\* the settings as the content script loaded them, with the overlay on or off,
\* and possibly a change of them on its way; an empty composer is open
InitDebounce ==
    /\ ScanIdle
    /\ ScoreIdle
    /\ ComposerOpen
    /\ DiagnosticsIdle
    /\ MessageIdle
    /\ SettingsIdle
    /\ ConsentIdle
    /\ OnboardingIdle
    /\ DebounceIdle
    /\ \E on \in BOOLEAN :
           storedSettings = [DEFAULT_SETTINGS EXCEPT !.showScoreInComposer = on]
    /\ \E on \in BOOLEAN :
           currentSettings = [DEFAULT_SETTINGS EXCEPT !.showScoreInComposer = on]
    /\ changes = IF currentSettings = storedSettings THEN <<>> ELSE <<storedSettings>>
    /\ scoreHistory = <<>>
    /\ currentScore = NoScore
    /\ messages = <<>>
    /\ bgQueue = <<>>
    /\ nextEntry = 1
    /\ logged = <<>>
    /\ overlapped = FALSE
    /\ OverlayAfterSetup

NextDebounce ==
    \/ \E t \in ComposerTexts : handleComposerInput(t)
    \/ RunTimers
    \/ TickMs
    \/ onChangedSettings

\* the event loop runs a due timer, and time goes on
SpecDebounce ==
    InitDebounce /\ [][NextDebounce]_vars /\ WF_vars(RunTimers) /\ WF_vars(TickMs)

---------------------------------------------------------------------------
(* The content script: the composer coming and going, and the overlay      *)

\* the settings changes on their way to the content script at most
MaxSettingsChanges == 1

\* the input events and the time this part of the program is followed for
MaxContentInputs == 1
MaxContentTime == 250

\* the settings with the overlay on, or switched off in either way
ContentSettings ==
    { [DEFAULT_SETTINGS EXCEPT !.enabled = enabled, !.showScoreInComposer = showScoreInComposer] :
        enabled \in BOOLEAN, showScoreInComposer \in BOOLEAN }

\* the texts a composer holds when it is detected
DetectedTexts == {"", "gm"}

\* analyzeDraft(text) with its early return: the overlay is hidden when it
\* is switched off, else the draft is scored and the score shown
Analysis(t) ==
    IF ~shouldShowOverlay
    THEN /\ Rendering(NoScore, FALSE)
         /\ UNCHANGED currentScore
    ELSE /\ currentScore' = [ overall |-> 70 ]
         /\ Rendering(currentScore', TRUE)

\* the initial analysis of setupComposerListeners, and the callback of the
\* toolbar observer
AnalyzeOrReady(t) ==
    IF IsAnalysable(t)
    THEN Analysis(t)
    ELSE /\ Rendering(NoScore, shouldShowOverlay)
         /\ UNCHANGED currentScore

\* the composer observer sees an added node with a composer holding t:
\* setupComposerListeners (the COMPOSER_DETECTED message it sends is the Send
\* of the runtime messages)
setupComposerListeners(t) ==
    /\ ~composerPresent
    /\ composerPresent' = TRUE
    /\ composerText' = t
    /\ AnalyzeOrReady(t)
    /\ toolbarObserver' = TRUE
    /\ removedWithTimer' = FALSE
    /\ UNCHANGED <<storedSettings, scoreHistory, currentSettings, messages, bgQueue,
                   changes, nextEntry, logged, overlapped>>
    /\ UNCHANGED <<scanVars, scoreVars, consentVars, debounceVars, onboardingVars, settingsVars, messageVars, diagnosticsVars>>

ComposerAdded == \E t \in DetectedTexts : setupComposerListeners(t)

\* the composer observer sees a removed node that held the composer: the
\* overlay is hidden and the toolbar observer disconnected; debounceTimer is
\* left as it is
ComposerRemoved ==
    /\ composerPresent
    /\ composerPresent' = FALSE
    /\ composerText' = ""
    /\ Rendering(NoScore, FALSE)
    /\ toolbarObserver' = FALSE
    /\ removedWithTimer' = (timers # {})
    /\ UNCHANGED <<scanVars, scoreVars, consentVars, historyVars, debounceVars, onboardingVars, settingsVars, messageVars, diagnosticsVars>>

\* the toolbar observer sees a mutation
ToolbarMutation ==
    /\ toolbarObserver
    /\ composerPresent
    /\ AnalyzeOrReady(composerText)
    /\ UNCHANGED <<storedSettings, scoreHistory, currentSettings, messages, bgQueue,
                   changes, nextEntry, logged, overlapped>>
    /\ UNCHANGED <<scanVars, scoreVars, consentVars, debounceVars, onboardingVars, settingsVars, messageVars, diagnosticsVars, contentVars>>

\* the sequences of settings of every length up to n
RECURSIVE SettingsChanges(_)
SettingsChanges(n) ==
    IF n = 0 THEN {<<>>}
    ELSE SettingsChanges(n - 1) \cup
         {Append(q, settings) : q \in {l \in SettingsChanges(n - 1) : Len(l) = n - 1},
                                settings \in ContentSettings}

\* init has made the overlay root, loaded the settings and started
\* watchComposer on a page without a composer; changes of the settings may be
\* on their way
InitContent ==
    /\ ScanIdle
    /\ ScoreIdle
    /\ ConsentIdle /\ OnboardingIdle /\ SettingsIdle /\ MessageIdle /\ DiagnosticsIdle
    /\ DebounceIdle
    /\ OverlayIdle
    /\ ContentIdle
    /\ currentSettings \in ContentSettings
    /\ changes \in SettingsChanges(MaxSettingsChanges)
    /\ storedSettings = IF changes = <<>> THEN currentSettings ELSE changes[Len(changes)]
    /\ scoreHistory = <<>>
    /\ currentScore = NoScore
    /\ messages = <<>>
    /\ bgQueue = <<>>
    /\ nextEntry = 1
    /\ logged = <<>>
    /\ overlapped = FALSE

\* an input event in the composer
ComposerInput ==
    /\ inputs < MaxContentInputs
    /\ \E t \in DetectedTexts : handleComposerInput(t)

\* time passes
ContentTick == timeMs + TICK_MS <= MaxContentTime /\ TickMs

NextContent ==
    \/ ComposerAdded
    \/ ComposerRemoved
    \/ ToolbarMutation
    \/ ComposerInput
    \/ RunTimers
    \/ ContentTick
    \/ onChangedSettings

SpecContent == InitContent /\ [][NextContent]_vars

---------------------------------------------------------------------------
(* Onboarding: the install handler, the popup and its checklist            *)

\* the settings an earlier version stored: without the three later fields
OldSettings ==
    [ DEFAULT_SETTINGS EXCEPT !.onboardingCompleted = "undefined",
                              !.aiConsentAccepted = "undefined",
                              !.animationsEnabled = "undefined" ]

\* value ?? fallback
Nullish(value, fallback) == IF value = "undefined" THEN fallback ELSE value

\* Array.isArray(scoreHistory) && scoreHistory.length > 0
isActiveUser(history) == Len(history) > 0

\* the migrated settings of the update branch of onInstalled
Migrated(settings, history) ==
    [ settings EXCEPT
        !.onboardingCompleted = Nullish(@, IF isActiveUser(history) THEN "true" ELSE "false"),
        !.aiConsentAccepted = Nullish(@, "false"),
        !.animationsEnabled = Nullish(@, "true") ]

\* the condition of the checklist's completion effect, with the third step left out
AllCompleteButComposer(s) == s.loaded /\ s.pinned

\* steps.loaded && steps.pinned && steps.composerDetected
AllComplete(s) == s.loaded /\ s.pinned /\ s.composerDetected

\* result.onboardingCompleted === true
StoredCompleted(value) == value = "true"

\* the writes of popups that were closed before the storage answered
Orphaned(pending) == IF pending = {} THEN {} ELSE {"orphan"}

\* the popup's page loads: Popup and OnboardingChecklist mount, the mount
\* effects run (the get of 'onboardingCompleted' is sent, detectLoadedState
\* completes the first step)
Mount(afterReset) ==
    /\ popupOpen' = TRUE
    /\ loadPending' = TRUE
    /\ onboardingCompleted' = FALSE
    /\ composerDetected' = FALSE
    /\ steps' = [NoSteps EXCEPT !.loaded = TRUE]
    /\ completePending' = Orphaned(completePending)
    /\ onCompleteLog' = <<>>
    /\ session' = [ afterHandled |-> handled,
                    afterMigration |-> migratedActive # "none",
                    afterReset |-> afterReset ]

\* onInstalled with reason 'install': the default settings are stored
onInstalledInstall ==
    /\ updatePc = "none"
    /\ storedSettings = NoSettings
    /\ storedSettings' = DEFAULT_SETTINGS
    /\ updatePc' = "done"
    /\ UNCHANGED <<onboardingStore, updateRead, popupOpen, loadPending, onboardingCompleted,
                   composerDetected, steps, completePending, resetPc, onCompleteLog,
                   handled, migratedActive, session>>
    /\ UNCHANGED <<scoreHistory, currentSettings, currentScore, messages, bgQueue, changes,
                   nextEntry, logged, overlapped>>
    /\ UNCHANGED <<scanVars, scoreVars, consentVars, debounceVars, settingsVars, messageVars, overlayVars, diagnosticsVars, contentVars>>

\* onInstalled with reason 'update' (the browser has closed the extension's
\* pages): the get of settings and scoreHistory is sent
onInstalledUpdate ==
    /\ updatePc \in {"none", "done"}
    /\ ~popupOpen
    /\ updatePc' = "get"
    /\ UNCHANGED <<onboardingStore, updateRead, popupOpen, loadPending, onboardingCompleted,
                   composerDetected, steps, completePending, resetPc, onCompleteLog,
                   handled, migratedActive, session>>
    /\ UNCHANGED <<scanVars, scoreVars, consentVars, historyVars, debounceVars, settingsVars, messageVars, overlayVars, diagnosticsVars, contentVars>>

\* the get of the update branch resolves; the set of the default or of the
\* migrated settings is sent
UpdateGetResolves ==
    /\ updatePc = "get"
    /\ updateRead' =
           IF storedSettings = NoSettings
           THEN [ read |-> TRUE, value |-> DEFAULT_SETTINGS, active |-> FALSE ]
           ELSE [ read |-> TRUE, value |-> Migrated(storedSettings, scoreHistory),
                  active |-> /\ isActiveUser(scoreHistory)
                             /\ storedSettings.onboardingCompleted = "undefined" ]
    /\ updatePc' = "set"
    /\ UNCHANGED <<onboardingStore, popupOpen, loadPending, onboardingCompleted,
                   composerDetected, steps, completePending, resetPc, onCompleteLog,
                   handled, migratedActive, session>>
    /\ UNCHANGED <<scanVars, scoreVars, consentVars, historyVars, debounceVars, settingsVars, messageVars, overlayVars, diagnosticsVars, contentVars>>

\* the set of the update branch resolves
UpdateSetResolves ==
    /\ updatePc = "set"
    /\ storedSettings' = updateRead.value
    /\ migratedActive' = IF updateRead.active
                         THEN updateRead.value.onboardingCompleted
                         ELSE migratedActive
    /\ updateRead' = NoRead
    /\ updatePc' = "done"
    /\ UNCHANGED <<onboardingStore, popupOpen, loadPending, onboardingCompleted,
                   composerDetected, steps, completePending, resetPc, onCompleteLog,
                   handled, session>>
    /\ UNCHANGED <<scoreHistory, currentSettings, currentScore, messages, bgQueue, changes,
                   nextEntry, logged, overlapped>>
    /\ UNCHANGED <<scanVars, scoreVars, consentVars, debounceVars, settingsVars, messageVars, overlayVars, diagnosticsVars, contentVars>>

\* the user opens the popup of the installed extension
OpenPopup ==
    /\ updatePc # "none"
    /\ ~popupOpen
    /\ Mount(FALSE)
    /\ UNCHANGED <<onboardingStore, updatePc, updateRead, resetPc, handled, migratedActive>>
    /\ UNCHANGED <<scanVars, scoreVars, consentVars, historyVars, debounceVars, settingsVars, messageVars, overlayVars, diagnosticsVars, contentVars>>

\* the user closes the popup: its state is gone, what it sent is on its way
ClosePopup ==
    /\ popupOpen
    /\ popupOpen' = FALSE
    /\ loadPending' = FALSE
    /\ onboardingCompleted' = FALSE
    /\ composerDetected' = FALSE
    /\ steps' = NoSteps
    /\ completePending' = Orphaned(completePending)
    /\ resetPc' = CASE resetPc = "sent" -> "orphan"
                    [] resetPc = "saved" -> "none"
                    [] OTHER -> resetPc
    /\ onCompleteLog' = <<>>
    /\ session' = NoSession
    /\ UNCHANGED <<onboardingStore, updatePc, updateRead, handled, migratedActive>>
    /\ UNCHANGED <<scanVars, scoreVars, consentVars, historyVars, debounceVars, settingsVars, messageVars, overlayVars, diagnosticsVars, contentVars>>

\* the callback of the popup's get of 'onboardingCompleted'; when the state
\* becomes true the checklist is unmounted
LoadResolves ==
    /\ popupOpen
    /\ loadPending
    /\ loadPending' = FALSE
    /\ onboardingCompleted' = StoredCompleted(onboardingStore)
    /\ steps' = IF StoredCompleted(onboardingStore) THEN NoSteps ELSE steps
    /\ UNCHANGED <<onboardingStore, updatePc, updateRead, popupOpen, composerDetected,
                   completePending, resetPc, onCompleteLog, handled, migratedActive, session>>
    /\ UNCHANGED <<scanVars, scoreVars, consentVars, historyVars, debounceVars, settingsVars, messageVars, overlayVars, diagnosticsVars, contentVars>>

\* the checklist renders with new steps and its completion effect runs:
\* onComplete, which is handleOnboardingComplete, sends the set of
\* 'onboardingCompleted'
StepsChange(newSteps) ==
    /\ steps' = newSteps
    /\ IF AllComplete(newSteps)
       THEN /\ onCompleteLog' = Append(onCompleteLog, newSteps)
            /\ completePending' = completePending \cup {"live"}
       ELSE UNCHANGED <<onCompleteLog, completePending>>

\* handleManualPinned: the user ticks 'I have pinned the extension'
handleManualPinned ==
    /\ popupOpen
    /\ ~onboardingCompleted
    /\ ~steps.pinned
    /\ StepsChange([steps EXCEPT !.pinned = TRUE])
    /\ UNCHANGED <<onboardingStore, updatePc, updateRead, popupOpen, loadPending,
                   onboardingCompleted, composerDetected, resetPc, handled, migratedActive,
                   session>>
    /\ UNCHANGED <<scanVars, scoreVars, consentVars, historyVars, debounceVars, settingsVars, messageVars, overlayVars, diagnosticsVars, contentVars>>

\* the popup's listener receives COMPOSER_DETECTED; a mounted checklist takes
\* the new prop into its steps
onMessageComposerDetected ==
    /\ popupOpen
    /\ ~composerDetected
    /\ composerDetected' = TRUE
    /\ IF onboardingCompleted
       THEN UNCHANGED <<steps, onCompleteLog, completePending>>
       ELSE StepsChange([steps EXCEPT !.composerDetected = TRUE])
    /\ UNCHANGED <<onboardingStore, updatePc, updateRead, popupOpen, loadPending,
                   onboardingCompleted, resetPc, handled, migratedActive, session>>
    /\ UNCHANGED <<scanVars, scoreVars, consentVars, historyVars, debounceVars, settingsVars, messageVars, overlayVars, diagnosticsVars, contentVars>>

\* the set of handleOnboardingComplete resolves; a popup still open sets its
\* state, which unmounts the checklist
CompleteResolves(write) ==
    /\ write \in completePending
    /\ onboardingStore' = "true"
    /\ completePending' = completePending \ {write}
    /\ handled' = TRUE
    /\ IF write = "live"
       THEN /\ onboardingCompleted' = TRUE
            /\ steps' = NoSteps
       ELSE UNCHANGED <<onboardingCompleted, steps>>
    /\ UNCHANGED <<updatePc, updateRead, popupOpen, loadPending, composerDetected, resetPc,
                   onCompleteLog, migratedActive, session>>
    /\ UNCHANGED <<scanVars, scoreVars, consentVars, historyVars, debounceVars, settingsVars, messageVars, overlayVars, diagnosticsVars, contentVars>>

\* a write of handleOnboardingComplete resolves
CompleteStep == \E write \in completePending : CompleteResolves(write)

\* handleResetOnboarding: the user clicks 'Reset onboarding' in the Settings
\* tab; SAVE_SETTINGS is sent
handleResetOnboarding ==
    /\ popupOpen
    /\ onboardingCompleted
    /\ resetPc = "none"
    /\ resetPc' = "sent"
    /\ UNCHANGED <<onboardingStore, updatePc, updateRead, popupOpen, loadPending,
                   onboardingCompleted, composerDetected, steps, completePending,
                   onCompleteLog, handled, migratedActive, session>>
    /\ UNCHANGED <<scanVars, scoreVars, consentVars, historyVars, debounceVars, settingsVars, messageVars, overlayVars, diagnosticsVars, contentVars>>

\* the payload of the reset: the tab's settings (the stored ones, or the
\* defaults) with onboardingCompleted false
ResetPayload(settings) ==
    [ (IF settings = NoSettings THEN DEFAULT_SETTINGS ELSE settings)
          EXCEPT !.onboardingCompleted = "false" ]

\* the background worker stores the payload of SAVE_SETTINGS and responds (no
\* content script is listening for the change)
onMessageResetSettings ==
    /\ resetPc \in {"sent", "orphan"}
    /\ storedSettings' = ResetPayload(storedSettings)
    /\ resetPc' = IF resetPc = "sent" THEN "saved" ELSE "none"
    /\ UNCHANGED <<onboardingStore, updatePc, updateRead, popupOpen, loadPending,
                   onboardingCompleted, composerDetected, steps, completePending,
                   onCompleteLog, handled, migratedActive, session>>
    /\ UNCHANGED <<scoreHistory, currentSettings, currentScore, messages, bgQueue, changes,
                   nextEntry, logged, overlapped>>
    /\ UNCHANGED <<scanVars, scoreVars, consentVars, debounceVars, settingsVars, messageVars, overlayVars, diagnosticsVars, contentVars>>

\* handleResetOnboarding after the response: window.location.reload()
ResetReloads ==
    /\ resetPc = "saved"
    /\ popupOpen
    /\ resetPc' = "none"
    /\ Mount(TRUE)
    /\ UNCHANGED <<onboardingStore, updatePc, updateRead, handled, migratedActive>>
    /\ UNCHANGED <<scanVars, scoreVars, consentVars, historyVars, debounceVars, settingsVars, messageVars, overlayVars, diagnosticsVars, contentVars>>

\* the extension not yet installed, or an earlier version of it with its
\* settings and with or without a score history
InitOnboarding ==
    /\ ScanIdle
    /\ ScoreIdle
    /\ ContentIdle
    /\ DiagnosticsIdle
    /\ OverlayIdle
    /\ MessageIdle
    /\ SettingsIdle
    /\ ConsentIdle
    /\ DebounceIdle
    /\ OnboardingIdle
    /\ \E k \in {0, EarlierLogs} :
           /\ storedSettings \in (IF k = 0 THEN {NoSettings, OldSettings} ELSE {OldSettings})
           /\ scoreHistory = EarlierEntries(k)
           /\ logged = EarlierEntries(k)
           /\ nextEntry = k + 1
    /\ currentSettings = DEFAULT_SETTINGS
    /\ currentScore = NoScore
    /\ messages = <<>>
    /\ bgQueue = <<>>
    /\ changes = <<>>
    /\ overlapped = FALSE

NextOnboarding ==
    \/ onInstalledInstall
    \/ onInstalledUpdate
    \/ UpdateGetResolves
    \/ UpdateSetResolves
    \/ OpenPopup
    \/ ClosePopup
    \/ LoadResolves
    \/ handleManualPinned
    \/ onMessageComposerDetected
    \/ CompleteStep
    \/ handleResetOnboarding
    \/ onMessageResetSettings
    \/ ResetReloads

SpecOnboarding == InitOnboarding /\ [][NextOnboarding]_vars

---------------------------------------------------------------------------
(* The Settings tab: loading the settings and persisting their changes     *)

SAVE_DELAY_MS == 200
MaxChanges == 2
MaxSaves == 2

\* the settings the user can change in the model
ChangedSettings == {"enabled", "analyticsEnabled"}

\* settings || DEFAULT_SETTINGS
SettingsOrDefault(settings) == IF settings = NoSettings THEN DEFAULT_SETTINGS ELSE settings

\* the render is done and its effects have run
Rendered == effectDeps = <<tabSettings, settingsStatus>>

\* the cleanup of the persist effect: cancelled = true, for the messages the
\* run sent
Cancelled(requests) ==
    [ i \in 1..Len(requests) |->
        IF requests[i].kind = "persist" THEN [requests[i] EXCEPT !.cancelled = TRUE]
        ELSE requests[i] ]

\* the user opens the Settings tab: SettingsTab mounts, the load effect sends
\* GET_SETTINGS, the persist effect runs and returns (the status is 'loading')
MountSettingsTab ==
    /\ ~tabMounted
    /\ tabMounted' = TRUE
    /\ tabSettings' = DEFAULT_SETTINGS
    /\ settingsStatus' = "loading"
    /\ hasHydratedSettings' = FALSE
    /\ getSettingsPending' = TRUE
    /\ effectDeps' = <<DEFAULT_SETTINGS, "loading">>
    /\ hasCleanup' = FALSE
    /\ UNCHANGED <<saveTimers, saveRequests, userChanges>>
    /\ UNCHANGED <<scanVars, scoreVars, consentVars, historyVars, debounceVars, onboardingVars, messageVars, overlayVars, diagnosticsVars, contentVars>>

\* the background worker answers GET_SETTINGS and the load effect goes on
onMessageGetSettings ==
    /\ getSettingsPending
    /\ getSettingsPending' = FALSE
    /\ tabSettings' = SettingsOrDefault(storedSettings)
    /\ settingsStatus' = "ready"
    /\ hasHydratedSettings' = TRUE
    /\ UNCHANGED <<tabMounted, effectDeps, hasCleanup, saveTimers, saveRequests, userChanges>>
    /\ UNCHANGED <<scanVars, scoreVars, consentVars, historyVars, debounceVars, onboardingVars, messageVars, overlayVars, diagnosticsVars, contentVars>>

\* the user changes a setting: setSettings({...settings, [name]: value})
ChangeSetting(name) ==
    /\ tabMounted
    /\ settingsStatus # "loading"
    /\ userChanges < MaxChanges
    /\ tabSettings' = [tabSettings EXCEPT ![name] = ~@]
    /\ userChanges' = userChanges + 1
    /\ UNCHANGED <<tabMounted, settingsStatus, hasHydratedSettings, getSettingsPending,
                   effectDeps, hasCleanup, saveTimers, saveRequests>>
    /\ UNCHANGED <<scanVars, scoreVars, consentVars, historyVars, debounceVars, onboardingVars, messageVars, overlayVars, diagnosticsVars, contentVars>>

\* SettingsTab renders with a new settings or settingsStatus: the cleanup of
\* the last run of the persist effect runs (cancelled = true, clearTimeout),
\* then the effect, which sets the status to 'saving' and a timer of 200 ms
\* when the status is 'ready' and the settings have been loaded
Render ==
    /\ tabMounted
    /\ ~Rendered
    /\ effectDeps' = <<tabSettings, settingsStatus>>
    /\ IF settingsStatus = "ready" /\ hasHydratedSettings
       THEN /\ settingsStatus' = "saving"
            /\ saveTimers' = { [ due |-> timeMs + SAVE_DELAY_MS, payload |-> tabSettings ] }
            /\ hasCleanup' = TRUE
       ELSE /\ saveTimers' = IF hasCleanup THEN {} ELSE saveTimers
            /\ hasCleanup' = FALSE
            /\ UNCHANGED settingsStatus
    /\ saveRequests' = IF hasCleanup THEN Cancelled(saveRequests) ELSE saveRequests
    /\ UNCHANGED <<tabMounted, tabSettings, hasHydratedSettings, getSettingsPending,
                   userChanges>>
    /\ UNCHANGED <<scanVars, scoreVars, consentVars, historyVars, debounceVars, onboardingVars, messageVars, overlayVars, diagnosticsVars, contentVars>>

\* the timers due at a time
Due(pending, at) == {t \in pending : t.due <= at}

\* the messages the callbacks of timers send, one after another
RECURSIVE Sent(_)
Sent(due) ==
    IF due = {} THEN <<>>
    ELSE LET t == CHOOSE t \in due : TRUE
         IN <<[ kind |-> "persist", payload |-> t.payload, cancelled |-> FALSE ]>>
                \o Sent(due \ {t})

\* time passes, once the tab has rendered, and the callbacks of the timers
\* then due send SAVE_SETTINGS with the settings of their run
SettingsTick ==
    /\ tabMounted => Rendered
    /\ timeMs + TICK_MS <= MaxTime
    /\ timeMs' = timeMs + TICK_MS
    /\ saveRequests' = saveRequests \o Sent(Due(saveTimers, timeMs + TICK_MS))
    /\ saveTimers' = saveTimers \ Due(saveTimers, timeMs + TICK_MS)
    /\ UNCHANGED <<tabMounted, tabSettings, settingsStatus, hasHydratedSettings,
                   getSettingsPending, effectDeps, hasCleanup, userChanges>>
    /\ UNCHANGED <<debounceTimer, timers, nextTimerId, inputs, lastInput,
                   callbacksSince, analysesSince, lastRun, ranInsideBurst>>
    /\ UNCHANGED <<scanVars, scoreVars, consentVars, historyVars, onboardingVars, messageVars, overlayVars, diagnosticsVars, contentVars>>

\* handleResetOnboarding, in the tab: SAVE_SETTINGS is sent with the tab's
\* settings and onboardingCompleted false
ResetOnboardingClick ==
    /\ tabMounted
    /\ Len(saveRequests) < MaxSaves
    /\ saveRequests' = Append(saveRequests,
           [ kind |-> "reset",
             payload |-> [tabSettings EXCEPT !.onboardingCompleted = "false"],
             cancelled |-> FALSE ])
    /\ UNCHANGED <<tabMounted, tabSettings, settingsStatus, hasHydratedSettings,
                   getSettingsPending, effectDeps, hasCleanup, saveTimers, userChanges>>
    /\ UNCHANGED <<scanVars, scoreVars, consentVars, historyVars, debounceVars, onboardingVars, messageVars, overlayVars, diagnosticsVars, contentVars>>

\* the background worker stores the payload of the tab's oldest SAVE_SETTINGS
\* and answers it; the persist effect's callback, unless cancelled, sets the
\* status to 'ready'; handleResetOnboarding reloads the popup, which unmounts
\* the tab (no content script is listening for the change)
onMessageSaveSettingsOfTab ==
    /\ saveRequests # <<>>
    /\ storedSettings' = Head(saveRequests).payload
    /\ IF Head(saveRequests).kind = "reset" /\ tabMounted
       THEN /\ tabMounted' = FALSE
            /\ tabSettings' = DEFAULT_SETTINGS
            /\ settingsStatus' = "loading"
            /\ hasHydratedSettings' = FALSE
            /\ getSettingsPending' = FALSE
            /\ effectDeps' = <<DEFAULT_SETTINGS, "loading">>
            /\ hasCleanup' = FALSE
            /\ saveTimers' = {}
            /\ saveRequests' = Cancelled(Tail(saveRequests))
       ELSE /\ settingsStatus' = IF /\ Head(saveRequests).kind = "persist"
                                    /\ ~Head(saveRequests).cancelled
                                 THEN "ready" ELSE settingsStatus
            /\ saveRequests' = Tail(saveRequests)
            /\ UNCHANGED <<tabMounted, tabSettings, hasHydratedSettings, getSettingsPending,
                           effectDeps, hasCleanup, saveTimers>>
    /\ UNCHANGED userChanges
    /\ UNCHANGED <<scoreHistory, currentSettings, currentScore, messages, bgQueue, changes,
                   nextEntry, logged, overlapped>>
    /\ UNCHANGED <<scanVars, scoreVars, consentVars, debounceVars, onboardingVars, messageVars, overlayVars, diagnosticsVars, contentVars>>

\* the popup open, with the settings stored at install or changed since
InitSettings ==
    /\ ScanIdle
    /\ ScoreIdle
    /\ ContentIdle
    /\ DiagnosticsIdle
    /\ OverlayIdle
    /\ MessageIdle
    /\ ConsentIdle
    /\ DebounceIdle
    /\ OnboardingIdle
    /\ SettingsIdle
    /\ \E analyticsEnabled \in BOOLEAN :
           storedSettings = [DEFAULT_SETTINGS EXCEPT !.analyticsEnabled = analyticsEnabled]
    /\ scoreHistory = <<>>
    /\ currentSettings = DEFAULT_SETTINGS
    /\ currentScore = NoScore
    /\ messages = <<>>
    /\ bgQueue = <<>>
    /\ changes = <<>>
    /\ nextEntry = 1
    /\ logged = <<>>
    /\ overlapped = FALSE

NextSettings ==
    \/ MountSettingsTab
    \/ onMessageGetSettings
    \/ \E name \in ChangedSettings : ChangeSetting(name)
    \/ Render
    \/ SettingsTick
    \/ ResetOnboardingClick
    \/ onMessageSaveSettingsOfTab

SpecSettings ==
    /\ InitSettings
    /\ [][NextSettings]_vars
    /\ WF_vars(onMessageGetSettings)
    /\ WF_vars(Render)
    /\ WF_vars(SettingsTick)
    /\ WF_vars(onMessageSaveSettingsOfTab)

---------------------------------------------------------------------------
(* Runtime messages: the background worker's onMessage listener            *)

MaxExchanges == 3

\* the message types declared in RuntimeMessageMap
DeclaredTypes == {"GET_SETTINGS", "SAVE_SETTINGS", "LOG_SCORE", "COMPOSER_DETECTED"}

\* the declared types and one that is not declared
MessageTypes == DeclaredTypes \cup {"PING"}

\* a message without payload
NoPayload == [ payload |-> FALSE ]

\* the payloads a message of a type is sent with
Payloads(type) ==
    CASE type = "SAVE_SETTINGS" ->
             { [DEFAULT_SETTINGS EXCEPT !.enabled = on] : on \in BOOLEAN }
      [] type = "LOG_SCORE" -> { Entry(nextEntry, 70), NoPayload }
      [] OTHER -> { NoPayload }

\* { success: true }
Success == [ success |-> TRUE ]

\* { error: 'Unknown message type' }
UnknownType == [ error |-> "Unknown message type" ]

\* chrome.runtime.sendMessage: a script of the extension sends a message
SendMessage(type, payload) ==
    /\ request = NoRequest
    /\ exchanges < MaxExchanges
    /\ request' = [ type |-> type, payload |-> payload ]
    /\ requestPc' = "sent"
    /\ lastResponse' = NoResponse
    /\ exchanges' = exchanges + 1
    /\ UNCHANGED <<scanVars, scoreVars, consentVars, historyVars, debounceVars,
                   onboardingVars, settingsVars, overlayVars, diagnosticsVars, contentVars>>

\* a message of any type, with one of its payloads
Send == \E type \in MessageTypes : \E payload \in Payloads(type) : SendMessage(type, payload)

\* the onMessage listener of the background worker: the switch on message.type
onMessage ==
    /\ requestPc = "sent"
    /\ CASE request.type = "GET_SETTINGS" ->
              \* chrome.storage.local.get('settings') is sent
              /\ requestPc' = "get"
              /\ UNCHANGED <<request, lastResponse, bgQueue, logged, nextEntry, overlapped>>
         [] request.type = "SAVE_SETTINGS" ->
              \* chrome.storage.local.set({ settings: message.payload }) is sent
              /\ requestPc' = "set"
              /\ UNCHANGED <<request, lastResponse, bgQueue, logged, nextEntry, overlapped>>
         [] request.type = "LOG_SCORE" ->
              \* logScoreHistory is started if there is a payload; the answer is
              \* sent without waiting for it
              /\ IF request.payload # NoPayload
                 THEN /\ bgQueue' = Append(bgQueue,
                                           [ op |-> "get", scoreData |-> request.payload ])
                      /\ logged' = Append(logged, request.payload)
                      /\ nextEntry' = nextEntry + 1
                      /\ overlapped' = (overlapped \/ StoringEntry)
                 ELSE UNCHANGED <<bgQueue, logged, nextEntry, overlapped>>
              /\ lastResponse' = [ to |-> request.type, body |-> Success ]
              /\ request' = NoRequest
              /\ requestPc' = "none"
         [] OTHER ->
              /\ lastResponse' = [ to |-> request.type, body |-> UnknownType ]
              /\ request' = NoRequest
              /\ requestPc' = "none"
              /\ UNCHANGED <<bgQueue, logged, nextEntry, overlapped>>
    /\ UNCHANGED exchanges
    /\ UNCHANGED <<storedSettings, scoreHistory, currentSettings, currentScore, messages,
                   changes>>
    /\ UNCHANGED <<scanVars, scoreVars, consentVars, debounceVars, onboardingVars,
                   settingsVars, overlayVars, diagnosticsVars, contentVars>>

\* the storage answers the get of GET_SETTINGS, or the set of SAVE_SETTINGS,
\* and the listener sends its answer
StorageAnswers ==
    /\ requestPc \in {"get", "set"}
    /\ IF requestPc = "get"
       THEN /\ lastResponse' = [ to |-> request.type,
                                 body |-> SettingsOrDefault(storedSettings) ]
            /\ UNCHANGED <<storedSettings, changes>>
       ELSE /\ storedSettings' = request.payload
            /\ changes' = Append(changes, request.payload)
            /\ lastResponse' = [ to |-> request.type, body |-> Success ]
    /\ request' = NoRequest
    /\ requestPc' = "none"
    /\ UNCHANGED exchanges
    /\ UNCHANGED <<scoreHistory, currentSettings, currentScore, messages, bgQueue, nextEntry,
                   logged, overlapped>>
    /\ UNCHANGED <<scanVars, scoreVars, consentVars, debounceVars, onboardingVars,
                   settingsVars, overlayVars, diagnosticsVars, contentVars>>

\* the extension installed, with or without stored settings
InitMessages ==
    /\ ScanIdle
    /\ ScoreIdle
    /\ ContentIdle
    /\ DiagnosticsIdle
    /\ OverlayIdle
    /\ ConsentIdle
    /\ DebounceIdle
    /\ OnboardingIdle
    /\ SettingsIdle
    /\ MessageIdle
    /\ storedSettings \in
           {NoSettings} \cup { [DEFAULT_SETTINGS EXCEPT !.analyticsEnabled = on] : on \in BOOLEAN }
    /\ currentSettings = SettingsOrDefault(storedSettings)
    /\ scoreHistory = <<>>
    /\ currentScore = NoScore
    /\ messages = <<>>
    /\ bgQueue = <<>>
    /\ changes = <<>>
    /\ nextEntry = 1
    /\ logged = <<>>
    /\ overlapped = FALSE

NextMessages ==
    \/ Send
    \/ onMessage
    \/ StorageAnswers
    \/ BackgroundStorageStep
    \/ onChangedSettings

SpecMessages == InitMessages /\ [][NextMessages]_vars

---------------------------------------------------------------------------
(* ScoreOverlay, rendered into overlayRoot by updateOverlay                *)

\* the content script renders the overlay
updateOverlay(sc, isVisible) ==
    /\ Rendering(sc, isVisible)
    /\ UNCHANGED <<scanVars, scoreVars, consentVars, historyVars, debounceVars,
                   onboardingVars, settingsVars, messageVars, diagnosticsVars, contentVars>>

\* a click on the header button
ClickHeader ==
    /\ OverlayVisible
    /\ isExpanded' = OnClick(overlayProps.score, isExpanded)
    /\ everExpanded' = (everExpanded \/ isExpanded')
    /\ lastEvent' = [ kind |-> "click", wasExpanded |-> isExpanded,
                      hadScore |-> hasScore(overlayProps.score) ]
    /\ UNCHANGED <<overlayTree, overlayProps, activeTab>>
    /\ UNCHANGED <<scanVars, scoreVars, consentVars, historyVars, debounceVars,
                   onboardingVars, settingsVars, messageVars, diagnosticsVars, contentVars>>

\* a click on a tab of the expanded overlay, or an arrow key moving to it
SelectTab(tab) ==
    /\ Expanded
    /\ tab \in Tabs(overlayProps.showSuggestions)
    /\ activeTab' = tab
    /\ lastEvent' = [ kind |-> "tab", wasExpanded |-> isExpanded,
                      hadScore |-> hasScore(overlayProps.score) ]
    /\ UNCHANGED <<overlayTree, overlayProps, isExpanded, everExpanded>>
    /\ UNCHANGED <<scanVars, scoreVars, consentVars, historyVars, debounceVars,
                   onboardingVars, settingsVars, messageVars, diagnosticsVars, contentVars>>

\* the Escape key is pressed in the page; the overlay listens while expanded
PressEscape ==
    /\ isExpanded' = FALSE
    /\ lastEvent' = [ kind |-> "escape", wasExpanded |-> isExpanded,
                      hadScore |-> overlayProps # NoProps /\ hasScore(overlayProps.score) ]
    /\ UNCHANGED <<overlayTree, overlayProps, activeTab, everExpanded>>
    /\ UNCHANGED <<scanVars, scoreVars, consentVars, historyVars, debounceVars,
                   onboardingVars, settingsVars, messageVars, diagnosticsVars, contentVars>>

\* the content script renders the overlay, with or without a score
Renders ==
    \E sc \in OverlayScores : \E isVisible \in BOOLEAN : updateOverlay(sc, isVisible)

\* the user goes to a tab
SelectsTab == \E tab \in {"suggestions", "breakdown", "factors"} : SelectTab(tab)

InitOverlay ==
    /\ ScanIdle
    /\ ScoreIdle
    /\ ContentIdle
    /\ DiagnosticsIdle
    /\ ExtIdle

NextOverlay ==
    \/ Renders
    \/ ClickHeader
    \/ SelectsTab
    \/ PressEscape

SpecOverlay == InitOverlay /\ [][NextOverlay]_vars

---------------------------------------------------------------------------
(* Diagnostics: the three checks and the panel of the Settings tab         *)

\* hostnames, character by character
XCom == <<"x", ".", "c", "o", "m">>
TwitterCom == <<"t", "w", "i", "t", "t", "e", "r", ".", "c", "o", "m">>
MobileTwitterCom == <<"m", "o", "b", "i", "l", "e", ".">> \o TwitterCom
NetflixCom == <<"n", "e", "t", "f", "l", "i">> \o XCom
XComEvilIo == XCom \o <<".", "e", "v", "i", "l", ".", "i", "o">>
GoogleCom == <<"g", "o", "o", "g", "l", "e", ".", "c", "o", "m">>
Extensions == <<"e", "x", "t", "e", "n", "s", "i", "o", "n", "s">>

\* the urls of the tabs, as new URL parses them
Urls ==
    [ scheme : {"https"},
      hostname : {XCom, TwitterCom, MobileTwitterCom, NetflixCom, XComEvilIo, GoogleCom} ]
    \cup {[ scheme |-> "chrome", hostname |-> Extensions ]}

\* what chrome.tabs.query can give as the first tab: none, a tab without id
\* and url, a tab without url, a tab on a page
BrowserTabs ==
    {NoTab, [ present |-> TRUE, id |-> 0, url |-> NoUrl ], [ present |-> TRUE, id |-> 123, url |-> NoUrl ]}
    \cup [ present : {TRUE}, id : {123}, url : Urls ]

\* what the checks can meet
Envs ==
    [ tab : BrowserTabs, query : {"ok", "rejects"}, composerOpen : BOOLEAN,
      executeScript : {"ok", "Cannot access", "failed"},
      getSettings : {"ok", "rejects"}, enabled : BOOLEAN, showScoreInComposer : BOOLEAN ]

\* String.prototype.includes
includes(str, searchString) ==
    \E i \in 1..(Len(str) - Len(searchString) + 1) :
        SubSeq(str, i, i + Len(searchString) - 1) = searchString

\* String.prototype.startsWith on the scheme of the url
startsWithChrome(url) == url.scheme \in {"chrome", "chrome-extension"}

\* !tab?.url
HasNoUrl(browserTab) == ~browserTab.present \/ browserTab.url = NoUrl

\* !tab?.id
HasNoId(browserTab) == ~browserTab.present \/ browserTab.id = 0

\* a DiagnosticCheck; fixUrl "" and onFix FALSE stand for the absent fields
Check(id, name, passed, message, action, fixUrl, onFix) ==
    [ id |-> id, name |-> name, passed |-> passed, message |-> message,
      action |-> action, fixUrl |-> fixUrl, onFix |-> onFix ]

checkHostname(browserTab) ==
    IF HasNoUrl(browserTab)
    THEN Check("hostname", "On x.com", FALSE, "Unable to determine current page",
               "Open x.com", "https://x.com", FALSE)
    ELSE LET hostname == browserTab.url.hostname
             isOnX == includes(hostname, XCom) \/ includes(hostname, TwitterCom)
         IN  Check("hostname", "On x.com", isOnX,
                   IF isOnX THEN "On x.com" ELSE "Not on x.com",
                   "Navigate to x.com", "https://x.com", FALSE)

checkComposer(env) ==
    IF HasNoId(env.tab)
    THEN Check("composer", "Composer open", FALSE, "Unable to access tab",
               "Click Post button", "", FALSE)
    ELSE IF env.tab.url = NoUrl \/ startsWithChrome(env.tab.url)
    THEN Check("composer", "Composer open", FALSE, "Cannot check on this page type",
               "Navigate to x.com first", "https://x.com", FALSE)
    ELSE IF env.executeScript = "ok"
    THEN Check("composer", "Composer open", env.composerOpen,
               IF env.composerOpen THEN "Composer open" ELSE "Composer not open",
               "Click Post button", "", FALSE)
    ELSE IF env.executeScript = "Cannot access"
    THEN Check("composer", "Composer open", FALSE, "Page does not allow script access",
               "Navigate to x.com", "https://x.com", FALSE)
    ELSE Check("composer", "Composer open", FALSE, "Unable to check composer",
               "Click Post button", "", FALSE)

checkSettings(env) ==
    IF env.getSettings = "ok"
    THEN LET bothEnabled == env.enabled /\ env.showScoreInComposer
         IN  Check("settings", "Extension enabled", bothEnabled,
                   IF bothEnabled THEN "Extension enabled and overlay visible"
                                  ELSE "Extension disabled",
                   "Enable in Settings", "", TRUE)
    ELSE Check("settings", "Extension enabled", FALSE, "Unable to check settings",
               "Enable in Settings", "", FALSE)

\* Promise.all of the three checks
runAllDiagnostics(env) == <<checkHostname(env.tab), checkComposer(env), checkSettings(env)>>

\* checks.some, in place of checks.every
SomePassed(checks) == \E i \in DOMAIN checks : checks[i].passed

\* checks.every((check) => check.passed)
AllPassed(checks) == \A i \in DOMAIN checks : checks[i].passed

\* the element a failed check offers its fix in
FixElement(check) ==
    IF check.passed THEN "none"
    ELSE IF check.onFix THEN "button"
    ELSE IF check.fixUrl # "" THEN "a"
    ELSE "span"

\* the empty fragment
EmptyFragment == [ kind |-> "nothing" ]

\* what DiagnosticsPanel returns
DiagnosticsPanel(checks) ==
    IF AllPassed(checks)
    THEN EmptyFragment
    ELSE [ kind |-> "panel", title |-> "Overlay not detected",
           rows |-> [ i \in DOMAIN checks |->
                        [ id |-> checks[i].id, icon |-> checks[i].passed,
                          name |-> checks[i].name, message |-> checks[i].message,
                          fix |-> FixElement(checks[i]),
                          label |-> IF checks[i].passed THEN "" ELSE checks[i].action ] ] ]

\* the user brings another tab or page to the front
Navigate(browserTab) ==
    /\ diagEnv # NoEnv
    /\ browserTab # diagEnv.tab
    /\ diagEnv' = [diagEnv EXCEPT !.tab = browserTab]
    /\ UNCHANGED <<diagnostics, diagnosticsLoading, panel, queriedTab>>
    /\ UNCHANGED <<scanVars, scoreVars, consentVars, historyVars, debounceVars, onboardingVars, settingsVars, messageVars, overlayVars, contentVars>>

Navigates == \E browserTab \in BrowserTabs : Navigate(browserTab)

\* the promise of runAllDiagnostics settles: then(setDiagnostics), catch,
\* finally(setDiagnosticsLoading(false)), and the Settings tab renders again
DiagnosticsSettle ==
    /\ diagEnv # NoEnv
    /\ diagnosticsLoading
    /\ diagnostics' = IF diagEnv.query = "ok" THEN runAllDiagnostics(diagEnv) ELSE diagnostics
    /\ queriedTab' = IF diagEnv.query = "ok" THEN diagEnv.tab ELSE queriedTab
    /\ diagnosticsLoading' = FALSE
    /\ panel' = DiagnosticsPanel(diagnostics')
    /\ UNCHANGED diagEnv
    /\ UNCHANGED <<scanVars, scoreVars, consentVars, historyVars, debounceVars, onboardingVars, settingsVars, messageVars, overlayVars, contentVars>>

\* the effect on [settingsStatus] runs the checks again
RerunDiagnostics ==
    /\ diagEnv # NoEnv
    /\ ~diagnosticsLoading
    /\ diagnosticsLoading' = TRUE
    /\ panel' = LoadingPanel
    /\ UNCHANGED <<diagEnv, diagnostics, queriedTab>>
    /\ UNCHANGED <<scanVars, scoreVars, consentVars, historyVars, debounceVars, onboardingVars, settingsVars, messageVars, overlayVars, contentVars>>

\* the button of the settings check: onFix saves enabled and showScoreInComposer
ClickFix ==
    /\ diagEnv # NoEnv
    /\ panel # LoadingPanel /\ panel # EmptyFragment
    /\ \E i \in DOMAIN panel.rows : panel.rows[i].id = "settings" /\ panel.rows[i].fix = "button"
    /\ diagEnv' = [diagEnv EXCEPT !.enabled = TRUE, !.showScoreInComposer = TRUE]
    /\ UNCHANGED <<diagnostics, diagnosticsLoading, panel, queriedTab>>
    /\ UNCHANGED <<scanVars, scoreVars, consentVars, historyVars, debounceVars, onboardingVars, settingsVars, messageVars, overlayVars, contentVars>>

\* the Settings tab has mounted and its mount effect has started the checks
InitDiagnostics ==
    /\ ScanIdle
    /\ ScoreIdle
    /\ ContentIdle
    /\ ConsentIdle /\ HistoryIdle /\ DebounceIdle /\ OnboardingIdle
    /\ SettingsIdle /\ MessageIdle /\ OverlayIdle
    /\ diagEnv \in Envs
    /\ diagnostics = <<>>
    /\ diagnosticsLoading = TRUE
    /\ panel = LoadingPanel
    /\ queriedTab = NoTab

NextDiagnostics == Navigates \/ DiagnosticsSettle \/ RerunDiagnostics \/ ClickFix

SpecDiagnostics == InitDiagnostics /\ [][NextDiagnostics]_vars

\* the longest list of checks handed to the panel
MaxChecks == 3

\* the checks a list can hold at a place: passed or failed, with or without
\* fixUrl and onFix
ChecksAt(i) ==
    { Check(<<"hostname", "composer", "settings">>[i], "name", passed, "message", "action", fixUrl, onFix) :
        passed \in BOOLEAN, fixUrl \in {"", "https://x.com"}, onFix \in BOOLEAN }

\* the lists of checks of every length up to MaxChecks
RECURSIVE CheckLists(_)
CheckLists(n) ==
    IF n = 0 THEN {<<>>}
    ELSE CheckLists(n - 1) \cup
         {Append(checks, check) : checks \in {l \in CheckLists(n - 1) : Len(l) = n - 1},
                                  check \in ChecksAt(((n - 1) % 3) + 1)}

\* the Settings tab renders <DiagnosticsPanel checks={diagnostics} />
RenderDiagnosticsPanel ==
    /\ panel = LoadingPanel
    /\ diagnosticsLoading' = FALSE
    /\ panel' = DiagnosticsPanel(diagnostics)
    /\ UNCHANGED <<diagEnv, diagnostics, queriedTab>>
    /\ UNCHANGED <<scanVars, scoreVars, consentVars, historyVars, debounceVars, onboardingVars, settingsVars, messageVars, overlayVars, contentVars>>

InitPanel ==
    /\ ScanIdle
    /\ ScoreIdle
    /\ ContentIdle
    /\ ConsentIdle /\ HistoryIdle /\ DebounceIdle /\ OnboardingIdle
    /\ SettingsIdle /\ MessageIdle /\ OverlayIdle
    /\ diagEnv = NoEnv
    /\ diagnostics \in CheckLists(MaxChecks)
    /\ diagnosticsLoading = TRUE
    /\ panel = LoadingPanel
    /\ queriedTab = NoTab

NextPanel == RenderDiagnosticsPanel

SpecPanel == InitPanel /\ [][NextPanel]_vars

---------------------------------------------------------------------------
(* Properties of scanForControversy                                        *)

\* the tables with their categories, in the order scanForControversy scans them
RuleTables ==
    << [ patterns |-> OFFENSIVE_PATTERNS,       category |-> "offensive_language" ],
       [ patterns |-> HOT_BUTTON_PATTERNS,      category |-> "hot_button_topic" ],
       [ patterns |-> INFLAMMATORY_PATTERNS,    category |-> "inflammatory_tone" ],
       [ patterns |-> RAGE_BAIT_PATTERNS,       category |-> "rage_bait" ],
       [ patterns |-> TARGETED_ATTACK_PATTERNS, category |-> "targeted_attack" ],
       [ patterns |-> MISINFO_PATTERNS,         category |-> "misinfo_pattern" ] >>

\* every rule as <<table, index in the table>>
RuleIds == {ck \in (1..6) \X (1..4) : ck[2] <= Len(RuleTables[ck[1]].patterns)}

SeverityRank(severity) ==
    CASE severity = "low" -> 1 [] severity = "medium" -> 2
      [] severity = "high" -> 3 [] severity = "critical" -> 4

DocumentedPenalty(severity) ==
    CASE severity = "low" -> 2 [] severity = "medium" -> 5
      [] severity = "high" -> 10 [] severity = "critical" -> 20

RECURSIVE PenaltySum(_, _)
PenaltySum(ws, n) == IF n = 0 THEN 0 ELSE PenaltySum(ws, n - 1) + ws[n].penalty

ScoredAsDocumented(r) ==
    r # NoResult =>
        /\ \A i \in 1..Len(r.warnings) :
               r.warnings[i].penalty = DocumentedPenalty(r.warnings[i].severity)
        /\ r.totalPenalty = PenaltySum(r.warnings, Len(r.warnings))
        /\ r.riskScore = IF r.totalPenalty * 25 < 1000 THEN r.totalPenalty * 25 ELSE 1000
        /\ r.riskScore >= 0 /\ r.riskScore <= 1000

MonotoneInPenalty(r, q) ==
    (r # NoResult /\ q # NoResult /\ r.totalPenalty <= q.totalPenalty)
        => r.riskScore <= q.riskScore

\* C1: every warning's penalty is the one of its severity (low 2, medium 5,
\* high 10, critical 20), totalPenalty is the sum of the returned warnings'
\* penalties, riskScore is min(100, 2.5 x totalPenalty) (kept in tenths), so it
\* lies in [0,100], and of two results the one with the larger totalPenalty
\* never has the smaller riskScore.
C1_PenaltyAndRiskScore ==
    /\ ScoredAsDocumented(result)
    /\ ScoredAsDocumented(firstResult)
    /\ MonotoneInPenalty(result, firstResult)
    /\ MonotoneInPenalty(firstResult, result)

\* a first call scored 12.5 and a later one with penalty 45 capped at 100
C1_Witness ==
    /\ firstResult # NoResult /\ result # NoResult
    /\ firstResult.totalPenalty = 5 /\ firstResult.riskScore = 125
    /\ result.totalPenalty = 45 /\ result.riskScore = 1000

\* C2: riskLevel is the band of riskScore with inclusive lower bounds:
\* dangerous iff >= 60, risky iff in [30,60), caution iff in [10,30), safe iff
\* < 10 (riskScore in tenths).
C2_RiskLevelBands ==
    result # NoResult =>
        /\ result.riskLevel = "dangerous" <=> result.riskScore >= 600
        /\ result.riskLevel = "risky" <=>
               (result.riskScore >= 300 /\ result.riskScore < 600)
        /\ result.riskLevel = "caution" <=>
               (result.riskScore >= 100 /\ result.riskScore < 300)
        /\ result.riskLevel = "safe" <=> result.riskScore < 100

\* a result exactly on the lower bound of the dangerous band
C2_Witness ==
    /\ result # NoResult
    /\ result.riskScore = 600
    /\ result.riskLevel = "dangerous"

\* the warnings of r that rule ck of the tables accounts for
WarningsOf(r, ck) ==
    {i \in 1..Len(r.warnings) :
        /\ r.warnings[i].category = RuleTables[ck[1]].category
        /\ r.warnings[i].detail = RuleTables[ck[1]].patterns[ck[2]].detail
        /\ r.warnings[i].severity = RuleTables[ck[1]].patterns[ck[2]].severity}

\* whether rule ck matches the text somewhere
RuleMatches(ck, txt) == Hits(RuleTables[ck[1]].patterns[ck[2]].phrases, txt, 0) # {}

\* C3: the warnings hold exactly one warning for each rule of the six tables
\* that matches the text and none for a rule that does not, k matching rules
\* give k warnings, and every warning's category is one of the six categories.
C3_OneWarningPerMatchedRule ==
    result # NoResult =>
        /\ \A ck \in RuleIds :
               Cardinality(WarningsOf(result, ck)) = IF RuleMatches(ck, text) THEN 1 ELSE 0
        /\ Len(result.warnings) = Cardinality({ck \in RuleIds : RuleMatches(ck, text)})
        /\ \A i \in 1..Len(result.warnings) :
               result.warnings[i].category \in
                   {"offensive_language", "hot_button_topic", "inflammatory_tone",
                    "rage_bait", "targeted_attack", "misinfo_pattern"}

\* a text matching two rules of one table and a rule of another table
C3_Witness ==
    /\ result # NoResult
    /\ Len(result.warnings) >= 3
    /\ \E i, j \in 1..Len(result.warnings) :
           /\ i # j
           /\ result.warnings[i].category = result.warnings[j].category
    /\ \E i, j \in 1..Len(result.warnings) :
           result.warnings[i].category # result.warnings[j].category

\* place of a warning's rule in the order the rules are tested: table, then
\* index in the table
RulePlace(w) ==
    CHOOSE n \in 1..24 :
        \E ck \in RuleIds :
            /\ n = 4 * (ck[1] - 1) + ck[2]
            /\ w.category = RuleTables[ck[1]].category
            /\ w.detail = RuleTables[ck[1]].patterns[ck[2]].detail

\* C4: the warnings are in descending severity, and warnings of equal severity
\* are in insertion order: category order of the scan, then rule order in the
\* category's table.
C4_SortedBySeverityStable ==
    result # NoResult =>
        \A i, j \in 1..Len(result.warnings) :
            i < j =>
                \/ SeverityRank(result.warnings[i].severity)
                       > SeverityRank(result.warnings[j].severity)
                \/ /\ result.warnings[i].severity = result.warnings[j].severity
                   /\ RulePlace(result.warnings[i]) < RulePlace(result.warnings[j])

\* a result the sort reordered and that has a tie between two categories
C4_Witness ==
    /\ result # NoResult
    /\ \E i, j \in 1..Len(result.warnings) :
           /\ i < j
           /\ RulePlace(result.warnings[i]) > RulePlace(result.warnings[j])
    /\ \E i, j \in 1..Len(result.warnings) :
           /\ i < j
           /\ result.warnings[i].severity = result.warnings[j].severity
           /\ result.warnings[i].category # result.warnings[j].category

\* C5: a call with the text of the first call returns the result of the first
\* call, whatever calls were made in between.
C5_SameTextSameResult ==
    (result # NoResult /\ text = firstText) => result = firstResult

\* the first text scanned again after a call with another text
C5_Witness ==
    /\ otherCalls
    /\ text = firstText
    /\ result # NoResult
    /\ Len(result.warnings) >= 2

\* the text matches the critical violent-language rule
DeathThreat(txt) == Hits(OFFENSIVE_PATTERNS[2].phrases, txt, 0) # {}

HasCriticalWarning(r) ==
    \E i \in 1..Len(r.warnings) :
        r.warnings[i].severity = "critical" /\ r.warnings[i].penalty = 20

\* C6 as claimed: a text with a death-threat phrase gets a critical warning
\* with penalty 20 and riskLevel dangerous.
C6_DeathThreatDangerous ==
    (result # NoResult /\ DeathThreat(text)) =>
        /\ HasCriticalWarning(result)
        /\ result.riskLevel = "dangerous"

\* C6 amended: a text with a death-threat phrase gets a critical warning with
\* penalty 20, so totalPenalty >= 20 and riskScore >= 50; its riskLevel is
\* risky or dangerous, and dangerous exactly when totalPenalty >= 24.
C6_DeathThreatAtLeastRisky ==
    (result # NoResult /\ DeathThreat(text)) =>
        /\ HasCriticalWarning(result)
        /\ result.totalPenalty >= 20
        /\ result.riskScore >= 500
        /\ result.riskLevel \in {"risky", "dangerous"}
        /\ result.riskLevel = "dangerous" <=> result.totalPenalty >= 24

\* a death threat and nothing else: risky, not dangerous
C6_Witness ==
    /\ result # NoResult
    /\ DeathThreat(text)
    /\ result.totalPenalty = 20
    /\ result.riskLevel = "risky"

---------------------------------------------------------------------------
(* Properties of scoreTweet                                                *)

\* the band of an overall score, as the grading scale lists it
DocumentedGrade(overall) ==
    CASE overall \in 90..100 -> "S"
      [] overall \in 80..89  -> "A"
      [] overall \in 65..79  -> "B"
      [] overall \in 50..64  -> "C"
      [] overall \in 35..49  -> "D"
      [] overall \in 0..34   -> "F"
      [] OTHER -> "undefined"

\* the sub-scores of a TweetScore added up, before the clamp
RawOverall(sc) ==
    sc.breakdown.content + sc.breakdown.media + sc.breakdown.timing
        + sc.breakdown.engagement - sc.breakdown.risk

ScoreAs(isPremium) ==
    scoreTweet(tweet, [ context EXCEPT !.isPremium = isPremium ], timestamp, scoredAt, result)

\* a draft with a link has been scored for a context the caller supplied
LinkScored ==
    /\ score # NoScore
    /\ context # NoContext
    /\ tweet.externalLinks >= 1

\* C8 as stated: for a draft with externalLinks >= 1 and two contexts that
\* differ only in isPremium, the risk sub-score for the non-premium context is
\* strictly greater than the one for the premium context.
C8_NonPremiumRiskStrictlyGreater ==
    LinkScored =>
        /\ score = ScoreAs(context.isPremium).score
        /\ ScoreAs(FALSE).score.breakdown.risk > ScoreAs(TRUE).score.breakdown.risk

\* C8: for a draft with externalLinks >= 1 and two contexts that differ only in
\* isPremium, the external-link penalty is strictly greater for the non-premium
\* context; the risk sub-score for the non-premium context is never smaller,
\* and is strictly greater whenever the premium context's risk sub-score is
\* below the 30-point budget.
C8_NonPremiumLinkPenaltyGreater ==
    LinkScored =>
        /\ score = ScoreAs(context.isPremium).score
        /\ riskParts = ScoreAs(context.isPremium).riskParts
        /\ ScoreAs(FALSE).riskParts.links > ScoreAs(TRUE).riskParts.links
        /\ ScoreAs(FALSE).score.breakdown.risk >= ScoreAs(TRUE).score.breakdown.risk
        /\ ScoreAs(TRUE).score.breakdown.risk < 30
               => ScoreAs(FALSE).score.breakdown.risk > ScoreAs(TRUE).score.breakdown.risk

\* a draft with one link scored for a non-premium account: its risk sub-score
\* is below the budget and above the premium account's
C8_Witness ==
    /\ LinkScored
    /\ ~context.isPremium
    /\ tweet.externalLinks = 1
    /\ score.breakdown.risk < 30
    /\ score.breakdown.risk > ScoreAs(TRUE).score.breakdown.risk

\* the penalties of the latest call added up
PartsSum ==
    riskParts.links + riskParts.hashtags + riskParts.mentions + riskParts.template
        + riskParts.sentiment + riskParts.controversy

\* C9: the scanner's contribution to the risk penalty is min(totalPenalty, 10),
\* a third of the 30-point budget, whatever totalPenalty is, and the total risk
\* penalty (links, hashtags, mentions, template, sentiment and controversy
\* together) never exceeds 30.
C9_ControversyCappedRiskClamped ==
    score # NoScore =>
        /\ riskParts.controversy = Min(result.totalPenalty, 10)
        /\ 3 * 10 = 30
        /\ score.breakdown.risk = Min(PartsSum, 30)
        /\ score.breakdown.risk <= 30

\* a draft whose text costs more than 10 scanner points and whose penalties add
\* up to more than 30: the scanner contributes 10 and the risk sub-score is 30
C9_Witness ==
    /\ score # NoScore
    /\ result.totalPenalty > 10
    /\ riskParts.controversy = 10
    /\ PartsSum > 30
    /\ score.breakdown.risk = 30

---------------------------------------------------------------------------
(* Properties of withConsent and of the popup's consent flow               *)

\* C11: withConsent invokes the action only if the value it read under
\* consentKey is true or the modal this same call showed resolved true; when
\* the value read is true, showModal is never invoked, the action is invoked
\* exactly once, and what the action returns is what withConsent returns.
C11_ActionOnlyWithConsent ==
    \A c \in Calls :
        /\ calls[c].actions <= 1
        /\ calls[c].actions > 0 =>
               \/ calls[c].stored = "true"
               \/ calls[c].shown = 1 /\ calls[c].answer = "true"
        /\ calls[c].stored = "true" =>
               /\ calls[c].shown = 0
               /\ calls[c].actions = 1
               /\ calls[c].pc \in {"action", "done", "failed"}
               /\ calls[c].pc = "done" => calls[c].outcome = "result"

\* a call that found true in the storage and returned the action's result
\* without a modal
C11_Witness ==
    \E c \in Calls :
        /\ calls[c].stored = "true"
        /\ calls[c].pc = "done"
        /\ calls[c].outcome = "result"
        /\ calls[c].shown = 0
        /\ calls[c].actions = 1

\* C12: when the stored consent is not true and showModal resolves false,
\* withConsent rejects with 'Consent declined', never invokes the action and
\* writes nothing to the storage: unless someone else wrote, the stored value
\* is the one the call read.
C12_DeclineRejectsWithoutWrite ==
    \A c \in Calls :
        (calls[c].stored \in {"undefined", "false"} /\ calls[c].answer = "false") =>
            /\ calls[c].pc = "rejected"
            /\ calls[c].outcome = "Consent declined"
            /\ calls[c].actions = 0
            /\ calls[c].writes = 0
            /\ lastWrite = calls[c].readAfter => consentStore = calls[c].stored

\* a call that read false, was declined and left false in the storage
C12_Witness ==
    \E c \in Calls :
        /\ calls[c].stored = "false"
        /\ calls[c].answer = "false"
        /\ calls[c].pc = "rejected"
        /\ consentStore = "false"

\* C13: when the stored consent is not true and the user accepts the modal,
\* withConsent writes true under consentKey before it invokes the action, and
\* every later call that reads the storage before it is reset runs its action
\* without showing the modal.
C13_AcceptStoredBeforeAction ==
    /\ \A c \in Calls :
           calls[c].answer = "true" =>
               /\ calls[c].stored \in {"undefined", "false"}
               /\ calls[c].pc = "set" => calls[c].writes = 0 /\ calls[c].actions = 0
               /\ calls[c].actions > 0 => calls[c].writes = 1
    /\ lastWrite = "accept" => consentStore = "true"
    /\ \A c \in Calls :
           calls[c].readAfter = "accept" =>
               /\ calls[c].stored = "true"
               /\ calls[c].shown = 0
               /\ calls[c].actions = 1

\* a call accepted in the modal, and a later call that ran its action without
\* a modal
C13_Witness ==
    \E c1, c2 \in Calls :
        /\ c1 < c2
        /\ calls[c1].answer = "true"
        /\ calls[c1].writes = 1
        /\ calls[c2].readAfter = "accept"
        /\ calls[c2].shown = 0
        /\ calls[c2].pc = "done"

\* C14: after a click on 'Revoke AI consent', the next AI analysis request
\* shows the consent modal again and calls the AI service only after the user
\* accepted it, even if consent had been accepted earlier.
C14_RevokeAsksAgain ==
    \A c \in Calls :
        calls[c].afterRevoke =>
            /\ calls[c].pc \notin {"none", "get"} =>
                   calls[c].shown = 1 /\ calls[c].stored = "false"
            /\ calls[c].actions > 0 => calls[c].answer = "true"

\* consent accepted by an earlier call, revoked, and the next request showed
\* the modal and ran after it was accepted
C14_Witness ==
    \E c1, c2 \in Calls :
        /\ c1 < c2
        /\ calls[c1].answer = "true"
        /\ calls[c1].writes = 1
        /\ calls[c2].afterRevoke
        /\ calls[c2].shown = 1
        /\ calls[c2].answer = "true"
        /\ calls[c2].pc = "done"

---------------------------------------------------------------------------
(* Properties of the score history                                         *)

\* the most recent n of the entries l, in the order they were logged
MostRecent(l, n) ==
    LET kept == IF Len(l) < n THEN Len(l) ELSE n
    IN  [i \in 1..kept |-> l[Len(l) - kept + i]]

\* the entries whose logScoreHistory has run to its end
FullyLogged == IF StoringEntry THEN SubSeq(logged, 1, Len(logged) - 1) ELSE logged

\* C15: after any sequence of LOG_SCORE messages handled one after another
\* (none received while an earlier one is still being stored), the stored
\* scoreHistory has at most 100 entries and is the most recent up to 100 logged
\* entries in the order they were logged; the older ones are dropped.
C15_HistoryIsLast100 ==
    /\ Len(scoreHistory) <= 100
    /\ ~overlapped => scoreHistory = MostRecent(FullyLogged, 100)

\* more than 100 entries logged one after another: 100 are stored, the oldest
\* of them being the 100th from the end
C15_Witness ==
    /\ ~overlapped
    /\ ~StoringEntry
    /\ Len(logged) > 100
    /\ Len(scoreHistory) = 100
    /\ scoreHistory[1].timestamp = Len(logged) - 99
    /\ scoreHistory[100] = logged[Len(logged)]

\* a step that sends a LOG_SCORE message
SendsLogScore == nextEntry' # nextEntry \/ Len(messages') > Len(messages)

\* C16 as stated: a click on Post sends a LOG_SCORE message only if
\* analyticsEnabled is true in the content script's current settings and a
\* score has been computed, and while analytics is disabled no entry is ever
\* added to scoreHistory.
C16_NoEntryWhileDisabled ==
    [][ /\ SendsLogScore => currentSettings.analyticsEnabled /\ currentScore # NoScore
        /\ scoreHistory' # scoreHistory => currentSettings.analyticsEnabled ]_vars

\* C16: a click on Post sends a LOG_SCORE message only if analyticsEnabled is
\* true in the content script's current settings and a score has been
\* computed; a click made while analytics is disabled sends nothing, so every
\* entry added to scoreHistory comes from a click made while analytics was
\* enabled (it may reach the storage after analytics has been disabled).
C16_LogOnlyWhenEnabled ==
    [][ /\ SendsLogScore =>
               /\ currentSettings.analyticsEnabled
               /\ currentScore # NoScore
               /\ messages' = Append(messages, Entry(nextEntry, currentScore.overall))
        /\ ~currentSettings.analyticsEnabled =>
               /\ Len(messages') <= Len(messages)
               /\ nextEntry' = nextEntry
        /\ \A i \in 1..Len(scoreHistory') :
               \E j \in 1..Len(logged') : scoreHistory'[i] = logged'[j] ]_vars

\* an entry sent while analytics was enabled is in the stored history, and
\* analytics has been disabled since
C16_Witness ==
    /\ Len(scoreHistory) > 0
    /\ scoreHistory[Len(scoreHistory)].timestamp = nextEntry - 1
    /\ scoreHistory[Len(scoreHistory)].score = 70
    /\ nextEntry \in {2, EarlierLogs + 2}
    /\ ~currentSettings.analyticsEnabled

---------------------------------------------------------------------------
(* Properties of the debounced input handler                               *)

\* the timer callback, when one has run since the latest input event, ran no
\* earlier than 150 ms after that event and with the text it captured; none
\* ran between two events less than 150 ms apart
CallbackAfterLastInput ==
    /\ ~ranInsideBurst
    /\ callbacksSince <= 1
    /\ \A timer \in timers :
           /\ timers = {timer}
           /\ callbacksSince = 0
           /\ timer.text = lastInput.text
           /\ timer.due = lastInput.at + 150
    /\ callbacksSince = 1 =>
           /\ timers = {}
           /\ lastRun.text = lastInput.text
           /\ lastRun.at >= lastInput.at + 150

\* C17 as stated: input is debounced by 150 ms; for a burst of input events
\* each less than 150 ms after the previous one, exactly one analysis runs,
\* 150 ms after the last event, and it uses the text captured by that event.
C17_OneAnalysisPerBurst ==
    /\ CallbackAfterLastInput
    /\ callbacksSince = 1 => analysesSince = 1 /\ lastRun.analysed

\* C17: input is debounced by 150 ms: each input event cancels the pending
\* timer, so for a burst of input events each less than 150 ms after the
\* previous one, exactly one timer callback runs, no earlier than 150 ms after
\* the last event, with the text captured by that event; it runs one analysis
\* of that text when the overlay is enabled and the text is not blank, and no
\* analysis otherwise.
C17_OneCallbackPerBurst ==
    /\ [](/\ CallbackAfterLastInput
          /\ analysesSince <= callbacksSince
          /\ callbacksSince = 1 =>
                 /\ analysesSince = 1 <=> lastRun.analysed
                 /\ lastRun.analysed <=> (lastRun.overlay /\ lastRun.text \notin {"", "   "}))
    /\ (lastInput # NoInput) ~> (callbacksSince = 1)

\* a burst of two or more events within 100 ms, and the one analysis after it,
\* of the text of the last event
C17_Witness ==
    /\ inputs >= 2
    /\ lastInput.at <= 100
    /\ lastInput.text = "gm all"
    /\ callbacksSince = 1
    /\ analysesSince = 1
    /\ lastRun.text = "gm all"

---------------------------------------------------------------------------
(* Properties of the onboarding                                            *)

\* the popup has loaded the stored completion and shows what it will show
PopupSettled == popupOpen /\ ~loadPending

\* C18 as stated: after an extension update, an active user (non-empty stored
\* scoreHistory) whose stored settings have no onboardingCompleted value skips
\* onboarding: the migration records onboardingCompleted as true and the
\* popup, when opened, shows the tabs and not the onboarding checklist.
C18_ActiveUserSkipsOnboarding ==
    /\ migratedActive \in {"none", "true"}
    /\ (PopupSettled /\ session.afterMigration) => onboardingCompleted

C20_ResetShowsChecklist ==
    (PopupSettled /\ session.afterReset) => ~onboardingCompleted

---------------------------------------------------------------------------
(* Properties of the Settings tab                                          *)

\* what the user changed is stored and the tab says so
ChangeSaved == storedSettings = tabSettings /\ settingsStatus = "ready"

\* C21 as stated: after the settings have been loaded in the Settings tab,
\* every change the user makes to a setting is eventually sent to the
\* background worker as SAVE_SETTINGS (about 200 ms after the last change) and
\* stored, so that a later GET_SETTINGS returns the changed value; the
\* settings status returns to 'ready' afterwards.
C21_ChangeEventuallySaved ==
    (hasHydratedSettings /\ userChanges > 0) ~> ChangeSaved

---------------------------------------------------------------------------
(* Properties of the runtime messages                                      *)

\* C22 as stated: every runtime message whose type is declared in
\* RuntimeMessageMap receives the response declared for it: GET_SETTINGS
\* receives the stored settings (DEFAULT_SETTINGS when none are stored), and
\* SAVE_SETTINGS, LOG_SCORE and COMPOSER_DETECTED each receive
\* {success: true}; only a message of an undeclared type receives
\* {error: 'Unknown message type'}.
C22_DeclaredResponse ==
    lastResponse # NoResponse =>
        CASE lastResponse.to = "GET_SETTINGS" ->
                 lastResponse.body =
                     (IF storedSettings = NoSettings THEN DEFAULT_SETTINGS ELSE storedSettings)
          [] lastResponse.to \in {"SAVE_SETTINGS", "LOG_SCORE", "COMPOSER_DETECTED"} ->
                 lastResponse.body = [ success |-> TRUE ]
          [] OTHER ->
                 lastResponse.body = [ error |-> "Unknown message type" ]

---------------------------------------------------------------------------
(* Properties of ScoreOverlay                                              *)

\* C23: ScoreOverlay shows its expanded details only while a score is present
\* and the user has expanded it: clicking the header without a score does not
\* expand, clicking it with a score toggles expansion, pressing Escape while
\* expanded collapses it, and when the score becomes null the overlay
\* collapses and stays collapsed when a score appears again until the user
\* expands it.
C23_ExpandedOnlyWithScoreByUser ==
    /\ Expanded => (overlayProps.score # NoScore /\ everExpanded)
    /\ isExpanded => (overlayTree = "full" /\ overlayProps.score # NoScore)
    /\ lastEvent.kind = "click" =>
           isExpanded = (IF lastEvent.hadScore THEN ~lastEvent.wasExpanded
                         ELSE lastEvent.wasExpanded)
    /\ lastEvent.kind = "escape" => ~isExpanded
    /\ lastEvent.kind = "render" =>
           /\ overlayProps.score = NoScore => ~isExpanded
           /\ isExpanded => (lastEvent.wasExpanded /\ lastEvent.hadScore)

\* a score appears again after the expanded overlay lost its score, and the
\* overlay is collapsed
C23_Witness ==
    /\ lastEvent.kind = "render"
    /\ ~lastEvent.hadScore
    /\ everExpanded
    /\ OverlayVisible
    /\ overlayProps.score # NoScore
    /\ ~isExpanded

---------------------------------------------------------------------------
(* Properties of the diagnostics                                           *)

\* String.prototype.endsWith
endsWith(str, searchString) ==
    /\ Len(str) >= Len(searchString)
    /\ SubSeq(str, Len(str) - Len(searchString) + 1, Len(str)) = searchString

\* the host is x.com or twitter.com or a subdomain of one of them
IsXHost(hostname) ==
    \/ hostname \in {XCom, TwitterCom}
    \/ endsWith(hostname, <<".">> \o XCom)
    \/ endsWith(hostname, <<".">> \o TwitterCom)

\* C24: checkHostname returns passed = true if and only if the active tab's
\* host is x.com or twitter.com or a subdomain of one of them; for a tab on
\* any other domain it returns passed = false with the message "Not on
\* x.com", and for a missing tab or url it returns passed = false.
C24_HostnameCheck ==
    diagnostics # <<>> =>
        LET check == diagnostics[1]
            onX == ~HasNoUrl(queriedTab) /\ IsXHost(queriedTab.url.hostname)
        IN  /\ check.id = "hostname"
            /\ check.passed <=> onX
            /\ (~HasNoUrl(queriedTab) /\ ~onX) => (~check.passed /\ check.message = "Not on x.com")
            /\ HasNoUrl(queriedTab) => ~check.passed

\* C25: DiagnosticsPanel renders nothing if and only if every check of its
\* list passed; with at least one failed check it renders the "Overlay not
\* detected" panel listing all checks, and each failed check offers its fix
\* as a button when onFix is given, otherwise as a link when fixUrl is given,
\* otherwise as plain text.
C25_PanelRendersChecks ==
    panel # LoadingPanel =>
        /\ panel = EmptyFragment <=> \A i \in DOMAIN diagnostics : diagnostics[i].passed
        /\ panel # EmptyFragment =>
            /\ panel.title = "Overlay not detected"
            /\ DOMAIN panel.rows = DOMAIN diagnostics
            /\ \A i \in DOMAIN diagnostics :
                LET check == diagnostics[i]
                    row == panel.rows[i]
                IN  /\ row.id = check.id /\ row.name = check.name /\ row.message = check.message
                    /\ ~check.passed =>
                        /\ row.label = check.action
                        /\ row.fix = IF check.onFix THEN "button"
                                     ELSE IF check.fixUrl # "" THEN "a" ELSE "span"

\* a list with a passed check and failed checks of all three kinds of fix,
\* one of them with both onFix and fixUrl, has been rendered
C25_Witness ==
    /\ panel # LoadingPanel /\ panel # EmptyFragment
    /\ Len(diagnostics) = MaxChecks
    /\ diagnostics[1].passed
    /\ ~diagnostics[2].passed /\ diagnostics[2].onFix /\ diagnostics[2].fixUrl # ""
    /\ panel.rows[2].fix = "button"
    /\ ~diagnostics[3].passed /\ ~diagnostics[3].onFix /\ diagnostics[3].fixUrl # ""
    /\ panel.rows[3].fix = "a"

---------------------------------------------------------------------------
(* Properties of the content script's overlay                              *)

\* C26: once the composer has been removed from the page the overlay is
\* hidden and stays hidden until a composer is detected again, also when an
\* input debounce timer was pending at the moment of removal.
C26_HiddenWithoutComposer == ~composerPresent => ~OverlayVisible

\* C27: whenever the content script's current settings have enabled = false
\* or showScoreInComposer = false the overlay is not visible, whatever has
\* happened since: a settings change, a composer input, a toolbar mutation or
\* the detection of a composer.
C27_HiddenWhileDisabled ==
    (currentSettings.enabled = FALSE \/ currentSettings.showScoreInComposer = FALSE)
        => ~OverlayVisible

\* the overlay showed a score when it was switched off, and a timer callback
\* has since run on a composer with text
C27_Witness ==
    /\ currentSettings.enabled = FALSE \/ currentSettings.showScoreInComposer = FALSE
    /\ composerPresent
    /\ IsAnalysable(composerText)
    /\ currentScore # NoScore
    /\ lastRun # NoRun
    /\ ~lastRun.overlay
    /\ overlayProps # NoProps
    /\ ~overlayProps.isVisible

---------------------------------------------------------------------------
(* Properties of the AI analysis requests                                  *)

\* the withConsent calls whose action is awaiting the AI service
InFlight == {c \in DOMAIN calls : calls[c].pc = "action"}

\* C28: at most one AI analysis request is in flight at any time in the
\* popup: a second click on the analysis button before the first analysis
\* has finished does not start a second call to the AI service.
C28_OneAnalysisInFlight == Cardinality(InFlight) <= 1

---------------------------------------------------------------------------
(* Properties of concurrent logging                                        *)

\* every LOG_SCORE message sent has been handled to its end
AllStored == messages = <<>> /\ bgQueue = <<>>

\* C29: no logged score is lost to interleaving: when LOG_SCORE messages
\* have been handled by the background worker, their storage reads and
\* writes interleaving in any order, every entry among the 100 most recent
\* ones is in scoreHistory afterwards.
C29_NoLogLost ==
    AllStored =>
        \A j \in 1..Len(logged) :
            j > Len(logged) - HISTORY_LIMIT =>
                \E i \in 1..Len(scoreHistory) : scoreHistory[i] = logged[j]

---------------------------------------------------------------------------
(* Properties of the grades                                                *)

\* the sum of the four component maxima
MaxPoints == CONTENT_MAX + MEDIA_MAX + TIMING_MAX + ENGAGEMENT_MAX

============================================================================
